---- MODULE Spec2Model ----
(***************************************************************************)
(* Reconciliation engine of the supply-chain data tool: field cleaning,    *)
(* inconsistency detection, disruption analysis and consolidation, as      *)
(* implemented in the data-processing service (src/unnamed/part_004).      *)
(*                                                                         *)
(* JavaScript values are modelled as tagged records, strings as sequences  *)
(* of one-character strings, rows as functions from field names to values  *)
(* (the tag "undefined" stands for an absent property).                    *)
(***************************************************************************)
EXTENDS Integers, Sequences, FiniteSets, TLC

VARIABLES pc, rawData, cleanedOnce, cleanedTwice,
          legacy, spreadsheet, supplier, reverseLogistics, evalTime,
          inconsistencies, inconsistenciesSwapped,
          disruptionAnalysis, consolidated,
          \* row objects in memory and the lists the correction merger works on
          heap, parsedSources, originalSources, aiFixedData, updatedSources,
          \* state of the App component (one reconciliation session)
          files, results, isLoading, isFixing, error, manualOverrides,
          aiReportContent, aiFixedSourceData,
          \* calls in flight: processFiles / initializeChat, getAiFixSuggestions
          reconcileCall, fixCall,
          \* a CSV conversion: what is rendered or read, the text, the rows
          csvInput, csvText, csvRows

csvVars == <<csvInput, csvText, csvRows>>

mergeVars == <<heap, parsedSources, originalSources, aiFixedData,
               updatedSources>>

sessionVars == <<files, results, isLoading, isFixing, error, manualOverrides,
                 aiReportContent, aiFixedSourceData, reconcileCall, fixCall>>

vars == <<pc, rawData, cleanedOnce, cleanedTwice,
          legacy, spreadsheet, supplier, reverseLogistics, evalTime,
          inconsistencies, inconsistenciesSwapped,
          disruptionAnalysis, consolidated, mergeVars, sessionVars, csvVars>>

----------------------------------------------------------------------------
(* Bounds of the model *)

\* Rows per list handed to cleanData.
MaxCleanRows == 2
\* Rows per source handed to identifyInconsistencies / calculateDisruption.
MaxRows == 2
\* Rows per source handed to consolidateData.
MaxConsolidateRows == 1

----------------------------------------------------------------------------
(* JavaScript values *)

\* type DataRow = Record<string, any>: the values a cell can hold.
Undefined == [t |-> "undefined", s |-> <<>>, n |-> 0]
Null      == [t |-> "null",      s |-> <<>>, n |-> 0]
NaN       == [t |-> "nan",       s |-> <<>>, n |-> 0]
Str(s)    == [t |-> "string",    s |-> s,    n |-> 0]
Num(n)    == [t |-> "number",    s |-> <<>>, n |-> n]
\* +Infinity (sign = 1) and -Infinity (sign = -1)
Infinity(sign) == [t |-> "infinity", s |-> <<>>, n |-> sign]

\* typeof v === 'string'
IsString(v) == v.t = "string"
\* typeof v === 'number' and Number.isFinite(v)
IsFiniteNumber(v) == v.t = "number"
\* isNaN(v) for a value already converted by Number()
IsNaN(v) == v.t = "nan"

\* ToBoolean: '', 0, NaN, null and undefined are falsy.
Truthy(v) ==
  CASE v.t = "string"   -> v.s # <<>>
    [] v.t = "number"   -> v.n # 0
    [] v.t = "infinity" -> TRUE
    [] OTHER            -> FALSE

----------------------------------------------------------------------------
(* Strings *)

LowerLetters == <<"a","b","c","d","e","f","g","h","i","j","k","l","m",
                  "n","o","p","q","r","s","t","u","v","w","x","y","z">>
UpperLetters == <<"A","B","C","D","E","F","G","H","I","J","K","L","M",
                  "N","O","P","Q","R","S","T","U","V","W","X","Y","Z">>
DigitChars == <<"0","1","2","3","4","5","6","7","8","9">>

IndexOf(seq, c) == CHOOSE i \in 1..Len(seq) : seq[i] = c
InSeq(seq, c) == \E i \in 1..Len(seq) : seq[i] = c

IsWhite(c) == c \in {" ", "\t", "\n", "\r"}
IsDigit(c) == InSeq(DigitChars, c)
DigitVal(c) == IndexOf(DigitChars, c) - 1

\* String.prototype.toUpperCase / toLowerCase, character by character
UpperChar(c) == IF InSeq(LowerLetters, c) THEN UpperLetters[IndexOf(LowerLetters, c)] ELSE c
LowerChar(c) == IF InSeq(UpperLetters, c) THEN LowerLetters[IndexOf(UpperLetters, c)] ELSE c
ToUpperCase(s) == [i \in 1..Len(s) |-> UpperChar(s[i])]
ToLowerCase(s) == [i \in 1..Len(s) |-> LowerChar(s[i])]

\* String.prototype.trim
Trim(s) ==
  IF \A i \in 1..Len(s) : IsWhite(s[i]) THEN <<>>
  ELSE LET first == CHOOSE i \in 1..Len(s) :
                      ~IsWhite(s[i]) /\ \A j \in 1..(i-1) : IsWhite(s[j])
           last  == CHOOSE i \in 1..Len(s) :
                      ~IsWhite(s[i]) /\ \A j \in (i+1)..Len(s) : IsWhite(s[j])
       IN SubSeq(s, first, last)

\* String.prototype.includes
Includes(s, sub) ==
  \E i \in 1..(Len(s) - Len(sub) + 1) : SubSeq(s, i, i + Len(sub) - 1) = sub

\* value of a run of decimal digits
RECURSIVE DigitsValue(_)
DigitsValue(s) ==
  IF s = <<>> THEN 0
  ELSE 10 * DigitsValue(SubSeq(s, 1, Len(s) - 1)) + DigitVal(s[Len(s)])

AllDigits(s) == s # <<>> /\ \A i \in 1..Len(s) : IsDigit(s[i])

InfinityLiteral == <<"I","n","f","i","n","i","t","y">>

\* Number(v): ToNumber. For strings: StringToNumber on the trimmed text; the
\* empty string is 0, an optionally signed "Infinity" is +-Infinity, an
\* optionally signed run of decimal digits is its value, anything else NaN.
\* (Fractions, exponents and radix prefixes are not in the model's inputs.)
StringToNumber(s) ==
  LET t    == Trim(s)
      neg  == t # <<>> /\ t[1] = "-"
      sgn  == t # <<>> /\ t[1] \in {"-", "+"}
      body == IF sgn THEN Tail(t) ELSE t
  IN  IF t = <<>> THEN Num(0)
      ELSE IF body = InfinityLiteral THEN Infinity(IF neg THEN -1 ELSE 1)
      ELSE IF AllDigits(body)
           THEN Num(IF neg THEN 0 - DigitsValue(body) ELSE DigitsValue(body))
      ELSE NaN

ToNumber(v) ==
  CASE v.t = "string"    -> StringToNumber(v.s)
    [] v.t = "null"      -> Num(0)
    [] v.t = "undefined" -> NaN
    [] OTHER             -> v

----------------------------------------------------------------------------
(* Rows *)

\* The field names the engine reads (DataRow keys).
Fields == {"item_id", "item_name", "inventory_qty", "order_id", "order_qty",
           "last_updated", "shipment_qty", "shipment_date", "return_id",
           "Stock_QTY"}

\* The spelling of each field name, for the name tests the code makes.
FieldSpelling ==
  [f \in Fields |->
    CASE f = "item_id"       -> <<"i","t","e","m","_","i","d">>
      [] f = "item_name"     -> <<"i","t","e","m","_","n","a","m","e">>
      [] f = "inventory_qty" -> <<"i","n","v","e","n","t","o","r","y","_","q","t","y">>
      [] f = "order_id"      -> <<"o","r","d","e","r","_","i","d">>
      [] f = "order_qty"     -> <<"o","r","d","e","r","_","q","t","y">>
      [] f = "last_updated"  -> <<"l","a","s","t","_","u","p","d","a","t","e","d">>
      [] f = "shipment_qty"  -> <<"s","h","i","p","m","e","n","t","_","q","t","y">>
      [] f = "shipment_date" -> <<"s","h","i","p","m","e","n","t","_","d","a","t","e">>
      [] f = "return_id"     -> <<"r","e","t","u","r","n","_","i","d">>
      [] f = "Stock_QTY"     -> <<"S","t","o","c","k","_","Q","T","Y">>]

\* A row with no property set.
EmptyRow == [f \in Fields |-> Undefined]

\* Object.keys(row)
Keys(row) == {f \in Fields : row[f].t # "undefined"}

\* JSON.parse(JSON.stringify(x)): non-finite numbers serialise as null,
\* undefined properties are omitted.
JsonValue(v) == IF v.t \in {"infinity", "nan"} THEN Null ELSE v
JsonCopyRow(row) == [f \in Fields |-> JsonValue(row[f])]
JsonCopy(data) == [i \in 1..Len(data) |-> JsonCopyRow(data[i])]

----------------------------------------------------------------------------
(* cleanData *)

\* col.toLowerCase().includes('qty')
IsQtyColumn(col) == Includes(ToLowerCase(FieldSpelling[col]), <<"q","t","y">>)

\* const textColumns = ['item_id', 'item_name', 'order_id', 'return_id']
textColumns == {"item_id", "item_name", "order_id", "return_id"}

\* the qtyColumns.forEach body for one cell
CleanQty(v) ==
  IF v = Str(<<>>) \/ v = Null \/ v = Undefined \/ v = Str(<<"N","A">>)
  THEN Null
  ELSE LET num == ToNumber(v) IN IF IsNaN(num) THEN Null ELSE num

\* upper-casing without the trim
CleanTextUntrimmed(v) ==
  IF Truthy(v) /\ IsString(v) THEN Str(ToUpperCase(v.s)) ELSE v

\* the textColumns.forEach body for one cell
CleanText(v) ==
  IF Truthy(v) /\ IsString(v) THEN Str(ToUpperCase(Trim(v.s))) ELSE v

cleanData(data) ==
  IF Len(data) = 0 THEN <<>>
  ELSE LET df == JsonCopy(data)
           qtyColumns == {col \in Keys(df[1]) : IsQtyColumn(col)}
           CleanRow(row) ==
             [f \in Fields |->
               IF f \in qtyColumns THEN CleanQty(row[f])
               ELSE IF f \in textColumns THEN CleanText(row[f])
               ELSE row[f]]
       IN [i \in 1..Len(df) |-> CleanRow(df[i])]

----------------------------------------------------------------------------
(* Inputs: rows as parseCSV delivers them (every row of a list has the     *)
(* header's fields; a cell is a string or null).                           *)

\* all sequences over S of length 0..n
SeqUpTo(S, n) == UNION {[1..k -> S] : k \in 0..n}

IdA1raw == Str(<<" ","a","1"," ">>)
IdA1    == Str(<<"A","1">>)
IdB2    == Str(<<"B","2">>)
Date0101 == Str(<<"2","0","2","4","-","0","1","-","0","1">>)
Date0102 == Str(<<"2","0","2","4","-","0","1","-","0","2">>)
DateBad  == Str(<<"a","b","c">>)

\* cells of a quantity column before cleaning
RawQtyCells == {Null, Str(<<>>), Str(<<"N","A">>), Str(<<"5">>), Str(<<"-","7">>),
                Str(<<"a","b","c">>), Str(InfinityLiteral)}

RawCleanRows ==
  {[EmptyRow EXCEPT !["item_id"] = id, !["inventory_qty"] = q,
                    !["Stock_QTY"] = sq, !["last_updated"] = Date0101] :
     id \in {IdA1raw, Null}, q \in RawQtyCells, sq \in {Str(<<"0","3">>), Str(<<"x">>)}}

RawCleanLists == SeqUpTo(RawCleanRows, MaxCleanRows)

----------------------------------------------------------------------------
(* Specification of the cleaner: clean a parsed list, then clean the result *)

NoList == <<>>
NoResult == [none |-> TRUE]

\* the five upload slots of FileState
FileTypes == {"legacy", "spreadsheet", "supplier", "reverseLogistics",
              "historicalBackup"}
\* null in a slot of FileState
NoFile == [none |-> TRUE]
\* string | null: no error message
NoError == ""
\* no call in flight
NoCall == [phase |-> "idle"]

\* no CSV conversion
CsvIdle == csvInput = NoResult /\ csvText = <<>> /\ csvRows = NoList

\* the merger's variables while another component is analysed
MergeIdle ==
  /\ heap = <<>> /\ parsedSources = NoResult /\ originalSources = NoResult
  /\ aiFixedData = NoResult /\ updatedSources = NoResult

\* the App's state as useState initialises it
SessionIdle ==
  /\ files = [type \in FileTypes |-> NoFile]
  /\ results = NoResult
  /\ isLoading = FALSE /\ isFixing = FALSE
  /\ error = NoError
  /\ manualOverrides = {}
  /\ aiReportContent = NoResult
  /\ aiFixedSourceData = NoResult
  /\ reconcileCall = NoCall /\ fixCall = NoCall

InitClean ==
  /\ pc = "start"
  /\ rawData \in RawCleanLists
  /\ cleanedOnce = NoList /\ cleanedTwice = NoList
  /\ legacy = NoList /\ spreadsheet = NoList /\ supplier = NoList
  /\ reverseLogistics = NoList /\ evalTime = 0
  /\ inconsistencies = NoResult /\ inconsistenciesSwapped = NoResult
  /\ disruptionAnalysis = NoResult /\ consolidated = NoResult
  /\ MergeIdle /\ SessionIdle /\ CsvIdle

CleanOnce ==
  /\ pc = "start"
  /\ cleanedOnce' = cleanData(rawData)
  /\ pc' = "cleaned"
  /\ UNCHANGED <<rawData, cleanedTwice, legacy, spreadsheet, supplier,
                 reverseLogistics, evalTime,
                 inconsistencies, inconsistenciesSwapped, disruptionAnalysis,
                 consolidated,
                 mergeVars, sessionVars, csvVars>>

CleanTwice ==
  /\ pc = "cleaned"
  /\ cleanedTwice' = cleanData(cleanedOnce)
  /\ pc' = "recleaned"
  /\ UNCHANGED <<rawData, cleanedOnce, legacy, spreadsheet, supplier,
                 reverseLogistics, evalTime,
                 inconsistencies, inconsistenciesSwapped, disruptionAnalysis,
                 consolidated,
                 mergeVars, sessionVars, csvVars>>

NextClean == CleanOnce \/ CleanTwice

SpecClean == InitClean /\ [][NextClean]_vars

----------------------------------------------------------------------------
(* Claims about the cleaner *)

\* C8: after cleanData every field whose name contains "qty" (in any case)
\* holds a finite number or null in every row of the result.
QtyFieldsFiniteOrNull ==
  pc \in {"cleaned", "recleaned"} =>
    \A i \in 1..Len(cleanedOnce) : \A f \in Keys(cleanedOnce[i]) :
      IsQtyColumn(f) => (IsFiniteNumber(cleanedOnce[i][f]) \/ cleanedOnce[i][f] = Null)

\* C7: cleanData is idempotent: cleanData(cleanData(d)) = cleanData(d).
CleanIdempotent ==
  pc = "recleaned" => cleanedTwice = cleanedOnce

\* C21: cleanData trims and upper-cases the four text fields where they hold
\* strings, leaves every field that is neither one of the four nor qty-named
\* with the value of the input, and adds and removes no field and no row.
CleanTouchesTextAndQtyOnly ==
  pc \in {"cleaned", "recleaned"} =>
    /\ Len(cleanedOnce) = Len(rawData)
    /\ \A i \in 1..Len(rawData) :
         /\ Keys(cleanedOnce[i]) = Keys(rawData[i])
         /\ \A f \in Fields :
              IF f \in {"item_id", "item_name", "order_id", "return_id"}
              THEN IF rawData[i][f].t = "string"
                   THEN cleanedOnce[i][f] = Str(ToUpperCase(Trim(rawData[i][f].s)))
                   ELSE cleanedOnce[i][f] = rawData[i][f]
              ELSE IsQtyColumn(f) \/ cleanedOnce[i][f] = rawData[i][f]

\* a cleaned list whose first row had an item_id to trim and a date to keep
WitnessTextCleanedDateKept ==
  /\ pc = "cleaned"
  /\ Len(rawData) > 0
  /\ rawData[1]["item_id"] = IdA1raw
  /\ cleanedOnce[1]["item_id"] = IdA1
  /\ cleanedOnce[1]["last_updated"] = Date0101

----------------------------------------------------------------------------
(* identifyInconsistencies *)

\* Map.set on a Map kept as the sequence of its entries in insertion order:
\* an existing key keeps its position.
MapHas(m, k) == \E i \in 1..Len(m) : m[i].key = k
MapGet(m, k) == m[CHOOSE i \in 1..Len(m) : m[i].key = k]
MapSet(m, k, e) ==
  IF MapHas(m, k)
  THEN [i \in 1..Len(m) |-> IF m[i].key = k THEN e ELSE m[i]]
  ELSE Append(m, e)

\* left.forEach(row => { if (row[key]) map.set(row[key], {key, val_legacy}) })
RECURSIVE JoinLeft(_, _, _, _)
JoinLeft(m, left, key, valCol) ==
  IF left = <<>> THEN m
  ELSE LET row == Head(left)
           m2  == IF Truthy(row[key])
                  THEN MapSet(m, row[key],
                              [key |-> row[key], val_legacy |-> row[valCol],
                               val_spreadsheet |-> Undefined])
                  ELSE m
       IN JoinLeft(m2, Tail(left), key, valCol)

\* right.forEach(row => { if (!row[key]) return;
\*   const existing = map.get(row[key]) || {[key]: row[key]};
\*   map.set(row[key], {...existing, val_spreadsheet}) })
RECURSIVE JoinRight(_, _, _, _)
JoinRight(m, right, key, valCol) ==
  IF right = <<>> THEN m
  ELSE LET row == Head(right)
           existing == IF MapHas(m, row[key]) THEN MapGet(m, row[key])
                       ELSE [key |-> row[key], val_legacy |-> Undefined,
                             val_spreadsheet |-> Undefined]
           m2  == IF ~Truthy(row[key]) THEN m
                  ELSE MapSet(m, row[key],
                              [existing EXCEPT !.val_spreadsheet = row[valCol]])
       IN JoinRight(m2, Tail(right), key, valCol)

\* The suffixes are always ['_legacy', '_spreadsheet']: the first argument's
\* values go to val_legacy, the second's to val_spreadsheet.
outerJoin(left, right, key, valCol) ==
  JoinRight(JoinLeft(<<>>, left, key, valCol), right, key, valCol)

\* a - b on numbers (IEEE: NaN propagates, Infinity - Infinity is NaN)
Minus(a, b) ==
  CASE a.t = "nan" \/ b.t = "nan" -> NaN
    [] a.t = "infinity" /\ b.t = "infinity" ->
         IF a.n = b.n THEN NaN ELSE Infinity(a.n)
    [] a.t = "infinity" -> Infinity(a.n)
    [] b.t = "infinity" -> Infinity(0 - b.n)
    [] OTHER -> Num(a.n - b.n)

\* IsDiscrepancy without the "one is missing" test on null
IsDiscrepancyNoNullCheck(row) ==
  LET diff == Minus(ToNumber(row.val_legacy), ToNumber(row.val_spreadsheet))
  IN  ~IsNaN(diff) /\ diff # Num(0)

\* IsDiscrepancy testing diff > 0 instead of diff !== 0
IsDiscrepancyOneSided(row) ==
  LET val1 == row.val_legacy
      val2 == row.val_spreadsheet
      diff == Minus(ToNumber(val1), ToNumber(val2))
  IN  IF val1 = Null \/ val2 = Null THEN FALSE
      ELSE ~IsNaN(diff) /\ diff.n > 0

\* the filter of mergedInv / mergedOrders
IsDiscrepancy(row) ==
  LET val1 == row.val_legacy
      val2 == row.val_spreadsheet
      diff == Minus(ToNumber(val1), ToNumber(val2))
  IN  IF val1 = Null \/ val2 = Null THEN FALSE
      ELSE ~IsNaN(diff) /\ diff # Num(0)

SelectDiscrepancies(rows) == SelectSeq(rows, IsDiscrepancy)

InventoryDiscrepancy == "Inventory Quantity Discrepancy"
OrderDiscrepancy == "Order Quantity Discrepancy"

identifyInconsistencies(leg, spr) ==
  LET qtyDiscrepancies ==
        SelectDiscrepancies(outerJoin(leg, spr, "item_id", "inventory_qty"))
      orderDiscrepancies ==
        SelectDiscrepancies(outerJoin(leg, spr, "order_id", "order_qty"))
  IN  (IF Len(qtyDiscrepancies) > 0
       THEN <<[type |-> InventoryDiscrepancy, details |-> qtyDiscrepancies]>>
       ELSE <<>>)
      \o
      (IF Len(orderDiscrepancies) > 0
       THEN <<[type |-> OrderDiscrepancy, details |-> orderDiscrepancies]>>
       ELSE <<>>)

----------------------------------------------------------------------------
(* Inputs of the engine: legacy and spreadsheet rows as parsed, then       *)
(* cleaned by cleanData as processFiles does.                              *)

IdO1 == Str(<<"O","1">>)
IdO2 == Str(<<"O","2">>)

SourceRow(id, qty, oid, oqty, date) ==
  [EmptyRow EXCEPT !["item_id"] = id, !["inventory_qty"] = qty,
                   !["order_id"] = oid, !["order_qty"] = oqty,
                   !["last_updated"] = date]

RawSourceRows ==
  { SourceRow(IdA1, Str(<<"5">>), IdO1, Str(<<"7">>), Date0101),
    SourceRow(IdA1raw, Str(<<"7">>), IdO1, Str(<<"7">>), Date0102),
    SourceRow(IdA1, Str(<<"N","A">>), IdO1, Str(<<"a","b","c">>), Null),
    SourceRow(IdB2, Str(<<"5">>), Null, Null, DateBad),
    SourceRow(Null, Str(<<"7">>), IdO2, Str(<<"5">>), Date0102),
    \* a file that has only the two inventory columns
    [EmptyRow EXCEPT !["item_id"] = IdB2, !["inventory_qty"] = Str(<<"7">>)] }

\* every row of a parsed file has the header's fields
SameHeader(d) == \A i, j \in 1..Len(d) : Keys(d[i]) = Keys(d[j])

RawSourceLists(n) == {d \in SeqUpTo(RawSourceRows, n) : SameHeader(d)}
CleanSourceLists(n) == {cleanData(d) : d \in RawSourceLists(n)}

----------------------------------------------------------------------------
(* Specification of the detector: run it, then run it with the sources     *)
(* swapped.                                                                *)

InitDetect ==
  /\ pc = "start"
  /\ legacy \in CleanSourceLists(MaxRows)
  /\ spreadsheet \in CleanSourceLists(MaxRows)
  /\ supplier = NoList /\ reverseLogistics = NoList /\ evalTime = 0
  /\ rawData = NoList /\ cleanedOnce = NoList /\ cleanedTwice = NoList
  /\ inconsistencies = NoResult /\ inconsistenciesSwapped = NoResult
  /\ disruptionAnalysis = NoResult /\ consolidated = NoResult
  /\ MergeIdle /\ SessionIdle /\ CsvIdle

Detect ==
  /\ pc = "start"
  /\ inconsistencies' = identifyInconsistencies(legacy, spreadsheet)
  /\ pc' = "detected"
  /\ UNCHANGED <<rawData, cleanedOnce, cleanedTwice, legacy, spreadsheet,
                 supplier, reverseLogistics, evalTime, inconsistenciesSwapped,
                 disruptionAnalysis, consolidated,
                 mergeVars, sessionVars, csvVars>>

DetectSwapped ==
  /\ pc = "detected"
  /\ inconsistenciesSwapped' = identifyInconsistencies(spreadsheet, legacy)
  /\ pc' = "swapped"
  /\ UNCHANGED <<rawData, cleanedOnce, cleanedTwice, legacy, spreadsheet,
                 supplier, reverseLogistics, evalTime, inconsistencies,
                 disruptionAnalysis, consolidated,
                 mergeVars, sessionVars, csvVars>>

NextDetect == Detect \/ DetectSwapped

SpecDetect == InitDetect /\ [][NextDetect]_vars

----------------------------------------------------------------------------
(* Claims about the detector *)

\* the details reported under one discrepancy type
DetailsOf(incs, type) ==
  IF \E i \in 1..Len(incs) : incs[i].type = type
  THEN incs[CHOOSE i \in 1..Len(incs) : incs[i].type = type].details
  ELSE <<>>

\* the keys reported under one discrepancy type
MismatchedKeys(incs, type) ==
  {DetailsOf(incs, type)[i].key : i \in 1..Len(DetailsOf(incs, type))}

\* a non-null quantity: a number, not null and not missing
HasQuantity(v) == v.t \in {"number", "infinity"}

\* some row of src carries key k in keyCol with quantity q in valCol
Carries(src, keyCol, valCol, k, q) ==
  \E i \in 1..Len(src) : src[i][keyCol] = k /\ src[i][valCol] = q

\* every detail of the type reports two quantities that are carried by a
\* legacy row and a spreadsheet row of that key, both non-null, and different
ReportedOnlyIfBothDiffer(type, keyCol, valCol) ==
  \A i \in 1..Len(DetailsOf(inconsistencies, type)) :
    LET d == DetailsOf(inconsistencies, type)[i] IN
      /\ Carries(legacy, keyCol, valCol, d.key, d.val_legacy)
      /\ Carries(spreadsheet, keyCol, valCol, d.key, d.val_spreadsheet)
      /\ HasQuantity(d.val_legacy) /\ HasQuantity(d.val_spreadsheet)
      /\ d.val_legacy # d.val_spreadsheet

\* C5: a joined key is reported as an inventory (order) quantity discrepancy
\* only when the legacy and the spreadsheet quantity for it are both non-null
\* and numerically different; a key of one source only, or with a null or
\* missing quantity on one side, is never reported.
DiscrepancyOnlyWhenBothDiffer ==
  pc \in {"detected", "swapped"} =>
    /\ ReportedOnlyIfBothDiffer(InventoryDiscrepancy, "item_id", "inventory_qty")
    /\ ReportedOnlyIfBothDiffer(OrderDiscrepancy, "order_id", "order_qty")

\* the detector reported item A1 and left unreported an item that only the
\* legacy source carries
WitnessOneSidedKeyNotReported ==
  /\ pc = "detected"
  /\ MismatchedKeys(inconsistencies, InventoryDiscrepancy) = {IdA1}
  /\ \E i \in 1..Len(legacy) : legacy[i]["item_id"] = IdB2
  /\ \A j \in 1..Len(spreadsheet) : spreadsheet[j]["item_id"] # IdB2

\* C6: identifyInconsistencies(L, S) and identifyInconsistencies(S, L) report
\* the same set of mismatched item_ids and of mismatched order_ids.
DetectionSymmetric ==
  pc = "swapped" =>
    /\ MismatchedKeys(inconsistencies, InventoryDiscrepancy)
         = MismatchedKeys(inconsistenciesSwapped, InventoryDiscrepancy)
    /\ MismatchedKeys(inconsistencies, OrderDiscrepancy)
         = MismatchedKeys(inconsistenciesSwapped, OrderDiscrepancy)

\* both directions have run and reported a mismatched item
WitnessSwappedMismatch ==
  /\ pc = "swapped"
  /\ legacy # spreadsheet
  /\ MismatchedKeys(inconsistencies, InventoryDiscrepancy) # {}
  /\ MismatchedKeys(inconsistenciesSwapped, InventoryDiscrepancy) # {}

----------------------------------------------------------------------------
(* Dates *)

\* Resolution of the model's clock: getTime() counted in ticks, this many
\* per day (a date-only string denotes midnight, tick 0 of its day).
TicksPerDay == 2

IsLeapYear(y) == (y % 4 = 0 /\ y % 100 # 0) \/ y % 400 = 0

DaysInMonth(y, m) ==
  CASE m = 2 -> IF IsLeapYear(y) THEN 29 ELSE 28
    [] m \in {4, 6, 9, 11} -> 30
    [] OTHER -> 31

\* days from 1970-01-01 to the civil date y-m-d (proleptic Gregorian)
DaysFromCivil(y, m, d) ==
  LET yy  == IF m <= 2 THEN y - 1 ELSE y
      era == yy \div 400
      yoe == yy - era * 400
      mp  == IF m > 2 THEN m - 3 ELSE m + 9
      doy == (153 * mp + 2) \div 5 + d - 1
      doe == yoe * 365 + yoe \div 4 - yoe \div 100 + doy
  IN  era * 146097 + doe - 719468

\* the text has the shape YYYY-MM-DD
IsIsoDateShape(s) ==
  /\ Len(s) = 10
  /\ s[5] = "-" /\ s[8] = "-"
  /\ \A i \in {1, 2, 3, 4, 6, 7, 9, 10} : IsDigit(s[i])

\* new Date(text).getTime() for a string: a date-only ISO text is midnight
\* UTC of that day, or NaN when month or day is out of range; every other
\* text of the model's inputs is no date in any engine (NaN).
DateTimeOf(s) ==
  IF ~IsIsoDateShape(s) THEN NaN
  ELSE LET y == DigitsValue(SubSeq(s, 1, 4))
           m == DigitsValue(SubSeq(s, 6, 7))
           d == DigitsValue(SubSeq(s, 9, 10))
       IN IF m \in 1..12 /\ d \in 1..DaysInMonth(y, m)
          THEN Num(DaysFromCivil(y, m, d) * TicksPerDay)
          ELSE NaN

\* new Date(v).getTime() for a cell value
GetTime(v) ==
  CASE v.t = "string" -> DateTimeOf(v.s)
    [] v.t = "number" -> Num(v.n)
    [] v.t = "null"   -> Num(0)
    [] OTHER          -> NaN

\* end of the longest run of digits that starts at i (i - 1 when there is none)
RECURSIVE DigitRunEnd(_, _)
DigitRunEnd(s, i) ==
  IF i <= Len(s) /\ IsDigit(s[i]) THEN DigitRunEnd(s, i + 1) ELSE i - 1

\* /(\d+)\/(\d+)\/(\d+)/ matches at position i
SlashDateAt(s, i) ==
  LET e1 == DigitRunEnd(s, i)
      e2 == DigitRunEnd(s, e1 + 2)
      e3 == DigitRunEnd(s, e2 + 2)
  IN  /\ e1 >= i /\ e1 + 1 <= Len(s) /\ s[e1 + 1] = "/"
      /\ e2 >= e1 + 2 /\ e2 + 1 <= Len(s) /\ s[e2 + 1] = "/"
      /\ e3 >= e2 + 2

\* s.replace(/(\d+)\/(\d+)\/(\d+)/, '$3-$1-$2'): the leftmost match only
ReplaceSlashDate(s) ==
  IF ~\E i \in 1..Len(s) : SlashDateAt(s, i) THEN s
  ELSE LET i  == CHOOSE k \in 1..Len(s) :
                   SlashDateAt(s, k) /\ \A j \in 1..(k-1) : ~SlashDateAt(s, j)
           e1 == DigitRunEnd(s, i)
           e2 == DigitRunEnd(s, e1 + 2)
           e3 == DigitRunEnd(s, e2 + 2)
       IN SubSeq(s, 1, i - 1)
          \o SubSeq(s, e2 + 2, e3) \o <<"-">>
          \o SubSeq(s, i, e1) \o <<"-">>
          \o SubSeq(s, e1 + 2, e2)
          \o SubSeq(s, e3 + 1, Len(s))

----------------------------------------------------------------------------
(* calculateDisruption *)

REQUIRED_INV_FIELDS == {"item_id", "inventory_qty", "last_updated"}
REQUIRED_ORDER_FIELDS == {"order_id", "order_qty", "last_updated"}

\* twoWeeksAgo.setDate(twoWeeksAgo.getDate() - 14)
TwoWeeks == 14

\* r[field] === null || r[field] === undefined || r[field] === ''
IsMissing(v) == v = Null \/ v = Undefined \/ v = Str(<<>>)

\* records.filter(r => REQUIRED.some(field => missing)).length
MissingCount(records, required) ==
  Cardinality({i \in 1..Len(records) : \E f \in required : IsMissing(records[i][f])})

\* toFixed(1) cutting the second decimal off instead of rounding
PercentageTruncated(count, total) ==
  IF total > 0 THEN (1000 * count) \div total ELSE 0

\* total > 0 ? parseFloat(((count / total) * 100).toFixed(1)) : 0, in tenths
\* of a percent: toFixed(1) rounds to the nearest tenth, halves upwards.
Percentage(count, total) ==
  IF total > 0 THEN (2000 * count + total) \div (2 * total) ELSE 0

\* the supplier.filter callback; a non-string date makes .replace throw,
\* which the catch turns into false
IsInTransit(r, nowTicks) ==
  LET twoWeeksAgo == nowTicks - TwoWeeks * TicksPerDay
      shipmentDate == DateTimeOf(ReplaceSlashDate(r["shipment_date"].s))
  IN  IF ~Truthy(r["shipment_date"]) THEN FALSE
      ELSE IF ~IsString(r["shipment_date"]) THEN FALSE
      ELSE ~IsNaN(shipmentDate) /\ shipmentDate.n > twoWeeksAgo

HasItemId(r) == Truthy(r["item_id"])
HasOrderId(r) == Truthy(r["order_id"])

calculateDisruption(leg, spr, sup, nowTicks) ==
  LET invRecords == SelectSeq(leg \o spr, HasItemId)
      orderRecords == SelectSeq(leg \o spr, HasOrderId)
      missingInv == MissingCount(invRecords, REQUIRED_INV_FIELDS)
      missingOrders == MissingCount(orderRecords, REQUIRED_ORDER_FIELDS)
      InTransitNow(r) == IsInTransit(r, nowTicks)
  IN  [missingInventoryData |->
         [count |-> missingInv, total |-> Len(invRecords),
          percentage |-> Percentage(missingInv, Len(invRecords))],
       missingOrderData |->
         [count |-> missingOrders, total |-> Len(orderRecords),
          percentage |-> Percentage(missingOrders, Len(orderRecords))],
       inTransitOrders |-> SelectSeq(sup, InTransitNow)]

----------------------------------------------------------------------------
(* Specifications of the disruption analyzer: one over the legacy and      *)
(* spreadsheet rows (missing-data rates), one over the supplier rows and   *)
(* the evaluation time (in-transit shipments).                             *)

\* the day on which the analysis runs: 2024-01-20
EvalDay == DaysFromCivil(2024, 1, 20)

\* evaluation times: any tick of the evaluation day
EvalTimes == {EvalDay * TicksPerDay + tod : tod \in 0..(TicksPerDay - 1)}

SupplierRow(id, qty, date) ==
  [EmptyRow EXCEPT !["item_id"] = id, !["shipment_qty"] = qty,
                   !["shipment_date"] = date]

\* shipment dates around the evaluation day
ShipTenDaysBefore    == Str(<<"0","1","/","1","0","/","2","0","2","4">>)
ShipTwentyDaysBefore == Str(<<"2","0","2","3","-","1","2","-","3","1">>)
ShipFourteenDaysBefore == Str(<<"2","0","2","4","-","0","1","-","0","6">>)
ShipThirteenDaysBefore == Str(<<"2","0","2","4","-","0","1","-","0","7">>)
ShipFiveDaysAfter    == Str(<<"2","0","2","4","-","0","1","-","2","5">>)

RawShipmentRows ==
  {SupplierRow(IdA1, Str(<<"5">>), date) :
     date \in {ShipTenDaysBefore, ShipTwentyDaysBefore, ShipFourteenDaysBefore,
               ShipThirteenDaysBefore, ShipFiveDaysAfter, DateBad, Null}}

CleanShipmentLists(n) == {cleanData(d) : d \in SeqUpTo(RawShipmentRows, n)}

InitMissing ==
  /\ pc = "start"
  /\ legacy \in CleanSourceLists(MaxRows)
  /\ spreadsheet \in CleanSourceLists(MaxRows)
  /\ supplier = NoList /\ reverseLogistics = NoList
  /\ evalTime = EvalDay * TicksPerDay
  /\ rawData = NoList /\ cleanedOnce = NoList /\ cleanedTwice = NoList
  /\ inconsistencies = NoResult /\ inconsistenciesSwapped = NoResult
  /\ disruptionAnalysis = NoResult /\ consolidated = NoResult
  /\ MergeIdle /\ SessionIdle /\ CsvIdle

InitTransit ==
  /\ pc = "start"
  /\ legacy = NoList /\ spreadsheet = NoList
  /\ supplier \in CleanShipmentLists(MaxRows)
  /\ reverseLogistics = NoList
  /\ evalTime \in EvalTimes
  /\ rawData = NoList /\ cleanedOnce = NoList /\ cleanedTwice = NoList
  /\ inconsistencies = NoResult /\ inconsistenciesSwapped = NoResult
  /\ disruptionAnalysis = NoResult /\ consolidated = NoResult
  /\ MergeIdle /\ SessionIdle /\ CsvIdle

CalculateDisruption ==
  /\ pc = "start"
  /\ disruptionAnalysis' = calculateDisruption(legacy, spreadsheet, supplier, evalTime)
  /\ pc' = "analysed"
  /\ UNCHANGED <<rawData, cleanedOnce, cleanedTwice, legacy, spreadsheet,
                 supplier, reverseLogistics, evalTime, inconsistencies, inconsistenciesSwapped,
                 consolidated,
                 mergeVars, sessionVars, csvVars>>

NextDisruption == CalculateDisruption

SpecMissing == InitMissing /\ [][NextDisruption]_vars

SpecTransit == InitTransit /\ [][NextDisruption]_vars

----------------------------------------------------------------------------
(* Claims about the disruption analyzer *)

Abs(x) == IF x < 0 THEN 0 - x ELSE x

\* count <= total; the percentage (in tenths) is the tenth nearest to
\* 100 * count / total, lies in 0..100 percent and is 0 for total = 0
RateWellFormed(rate) ==
  /\ rate.count <= rate.total
  /\ rate.total > 0 =>
       2 * Abs(rate.percentage * rate.total - 1000 * rate.count) <= rate.total
  /\ 0 <= rate.percentage /\ rate.percentage <= 1000
  /\ rate.total = 0 => rate.percentage = 0

\* C9: for missingInventoryData and missingOrderData, count <= total, the
\* percentage is 100*count/total rounded to one decimal, 0 <= percentage <= 100,
\* and the percentage is 0 whenever total is 0.
MissingRatesWellFormed ==
  pc = "analysed" =>
    /\ RateWellFormed(disruptionAnalysis.missingInventoryData)
    /\ RateWellFormed(disruptionAnalysis.missingOrderData)

\* two of three inventory records lack a required field: 66.7 percent,
\* while no order record exists or none lacks a field
WitnessTwoThirdsMissing ==
  /\ pc = "analysed"
  /\ disruptionAnalysis.missingInventoryData
       = [count |-> 2, total |-> 3, percentage |-> 667]
  /\ disruptionAnalysis.missingOrderData.total > 0

\* new Date(shipment_date with MM/DD/YYYY rewritten).getTime()
ShipmentTime(r) ==
  IF IsString(r["shipment_date"])
  THEN DateTimeOf(ReplaceSlashDate(r["shipment_date"].s))
  ELSE NaN

IsListed(r) ==
  \E j \in 1..Len(disruptionAnalysis.inTransitOrders) :
    disruptionAnalysis.inTransitOrders[j] = r

\* C10: a supplier row is in inTransitOrders if and only if its shipment_date
\* parses to a date no earlier than 14 days before the evaluation time and not
\* after it; a row with a missing or unparsable date is never included.
InTransitIffWithinTrailingTwoWeeks ==
  pc = "analysed" =>
    \A i \in 1..Len(supplier) :
      IsListed(supplier[i]) <=>
        /\ ~IsNaN(ShipmentTime(supplier[i]))
        /\ ShipmentTime(supplier[i]).n >= evalTime - TwoWeeks * TicksPerDay
        /\ ShipmentTime(supplier[i]).n <= evalTime

----------------------------------------------------------------------------
(* consolidateData *)

\* legacy.map / spreadsheet.map: the inventory projection of a source row
InvRow(r, source) ==
  [item_id |-> r["item_id"], item_name |-> r["item_name"],
   inventory_qty |-> r["inventory_qty"], last_updated |-> r["last_updated"],
   _source |-> source]

\* supplier.map: shipment_qty and shipment_date take the place of
\* inventory_qty and last_updated
SupplierInvRow(r) ==
  [item_id |-> r["item_id"], item_name |-> r["item_name"],
   inventory_qty |-> r["shipment_qty"], last_updated |-> r["shipment_date"],
   _source |-> "Supplier"]

\* the order projection of a legacy or spreadsheet row
OrderRow(r, source) ==
  [order_id |-> r["order_id"], order_qty |-> r["order_qty"],
   last_updated |-> r["last_updated"], _source |-> source]

MapSeq(rows, F(_)) == [i \in 1..Len(rows) |-> F(rows[i])]

\* the inventory filter without the test on last_updated
HasItemKeyOnly(r) == Truthy(r.item_id)

\* .filter(r => r.item_id && r.last_updated)
HasItemKeyAndDate(r) == Truthy(r.item_id) /\ Truthy(r.last_updated)

\* .filter(r => r.order_id && r.last_updated)
HasOrderKeyAndDate(r) == Truthy(r.order_id) /\ Truthy(r.last_updated)

\* combinedInv with the supplier rows left out
CombinedInvWithoutSupplier(leg, spr, sup) ==
  LET legacyInv == [i \in 1..Len(leg) |-> InvRow(leg[i], "Legacy")]
      spreadsheetInv == [i \in 1..Len(spr) |-> InvRow(spr[i], "Spreadsheet")]
  IN  SelectSeq(legacyInv \o spreadsheetInv, HasItemKeyAndDate)

\* [...legacyInv, ...spreadsheetInv, ...supplierInv].filter(...)
CombinedInv(leg, spr, sup) ==
  LET legacyInv == [i \in 1..Len(leg) |-> InvRow(leg[i], "Legacy")]
      spreadsheetInv == [i \in 1..Len(spr) |-> InvRow(spr[i], "Spreadsheet")]
      supplierInv == [i \in 1..Len(sup) |-> SupplierInvRow(sup[i])]
  IN  SelectSeq(legacyInv \o spreadsheetInv \o supplierInv, HasItemKeyAndDate)

\* [...legacy.map(...), ...spreadsheet.map(...)].filter(...)
CombinedOrders(leg, spr) ==
  SelectSeq([i \in 1..Len(leg) |-> OrderRow(leg[i], "Legacy")]
            \o [i \in 1..Len(spr) |-> OrderRow(spr[i], "Spreadsheet")],
            HasOrderKeyAndDate)

\* the sort callback on the two getTime() values:
\*   new Date(b.last_updated).getTime() - new Date(a.last_updated).getTime();
\* sort treats a NaN result as +0. The sign is returned.
CompareTimes(ta, tb) ==
  LET diff == Minus(tb, ta)
  IN  IF IsNaN(diff) THEN 0
      ELSE IF diff.t = "infinity" THEN diff.n
      ELSE IF diff.n < 0 THEN -1 ELSE IF diff.n > 0 THEN 1 ELSE 0

\* new Date(row.last_updated).getTime() of every row
TimesOf(rows) == [i \in 1..Len(rows) |-> GetTime(rows[i].last_updated)]

\* The callback is a consistent comparator for rows with these times
\* (ECMAScript, Array.prototype.sort): "compares equal" is transitive on
\* them. The other conditions hold of any difference of two numbers.
ConsistentComparator(times) ==
  \A i, j, k \in 1..Len(times) :
    (CompareTimes(times[i], times[j]) = 0 /\ CompareTimes(times[j], times[k]) = 0)
      => CompareTimes(times[i], times[k]) = 0

\* insert position x behind the last position that does not sort after it
RECURSIVE InsertSorted(_, _, _)
InsertSorted(sorted, x, times) ==
  IF sorted = <<>> THEN <<x>>
  ELSE IF CompareTimes(times[sorted[Len(sorted)]], times[x]) <= 0
       THEN Append(sorted, x)
       ELSE Append(InsertSorted(SubSeq(sorted, 1, Len(sorted) - 1), x, times),
                   sorted[Len(sorted)])

\* the stable sort of the positions 1..n by the callback
RECURSIVE StableSort(_, _)
StableSort(n, times) ==
  IF n = 0 THEN <<>>
  ELSE InsertSorted(StableSort(n - 1, times), n, times)

\* all orderings of a set of positions
RECURSIVE Orderings(_)
Orderings(S) ==
  IF S = {} THEN {<<>>}
  ELSE UNION {{<<x>> \o p : p \in Orderings(S \ {x})} : x \in S}

\* rows.sort(callback): the stable sort when the callback is a consistent
\* comparator; otherwise the order is implementation-defined, any
\* rearrangement of the rows.
SortOutcomes(rows) ==
  LET times == TimesOf(rows)
      orders == IF ConsistentComparator(times)
                THEN {StableSort(Len(rows), times)}
                ELSE Orderings(1..Len(rows))
  IN  {[i \in 1..Len(rows) |-> rows[p[i]]] : p \in orders}

\* forEach that sets every row, whether or not its key is in the Map yet
RECURSIVE KeepEveryRow(_, _, _)
KeepEveryRow(m, rows, keyCol) ==
  IF rows = <<>> THEN m
  ELSE KeepEveryRow(Append(m, [key |-> Head(rows)[keyCol], row |-> Head(rows)]),
                    Tail(rows), keyCol)

\* rows.forEach(row => { if (!unique.has(row.key)) unique.set(row.key, row) })
RECURSIVE KeepFirstPerKey(_, _, _)
KeepFirstPerKey(m, rows, keyCol) ==
  IF rows = <<>> THEN m
  ELSE LET row == Head(rows)
           m2  == IF ~MapHas(m, row[keyCol])
                  THEN MapSet(m, row[keyCol], [key |-> row[keyCol], row |-> row])
                  ELSE m
       IN KeepFirstPerKey(m2, Tail(rows), keyCol)

\* Array.from(unique.values())
MapValues(m) == [i \in 1..Len(m) |-> m[i].row]

\* reverseLogistics.map(r => ({...r, _source: 'ReverseLogistics'}))
ReturnRow(r) == [fields |-> r, _source |-> "ReverseLogistics"]

\* Array.from(uniqueInv.values()) for each outcome of the inventory sort
InventoryOutcomes(leg, spr, sup) ==
  {MapValues(KeepFirstPerKey(<<>>, sortedInv, "item_id")) :
     sortedInv \in SortOutcomes(CombinedInv(leg, spr, sup))}

\* Array.from(uniqueOrders.values()) for each outcome of the orders sort
OrderOutcomes(leg, spr) ==
  {MapValues(KeepFirstPerKey(<<>>, sortedOrders, "order_id")) :
     sortedOrders \in SortOutcomes(CombinedOrders(leg, spr))}

\* the results consolidateData can return: one per outcome of the two sorts
consolidateData(leg, spr, sup, rev) ==
  {[inventory |-> inv, orders |-> ord,
    returns   |-> [i \in 1..Len(rev) |-> ReturnRow(rev[i])]] :
     inv \in InventoryOutcomes(leg, spr, sup), ord \in OrderOutcomes(leg, spr)}

----------------------------------------------------------------------------
(* Specification of the consolidator *)

IdC3 == Str(<<"C","3">>)

RawSupplierRows ==
  { SupplierRow(IdA1, Str(<<"5","0">>), Date0102),
    SupplierRow(IdC3, Str(<<"5">>), Date0101),
    SupplierRow(IdB2, Str(<<"5">>), Null) }

CleanSupplierLists(n) == {cleanData(d) : d \in SeqUpTo(RawSupplierRows, n)}

RawReturnRows ==
  { [EmptyRow EXCEPT !["return_id"] = Str(<<"r","1">>), !["item_id"] = IdA1] }

CleanReturnLists == {cleanData(d) : d \in SeqUpTo(RawReturnRows, 1)}

InitConsolidate ==
  /\ pc = "start"
  /\ legacy \in CleanSourceLists(MaxConsolidateRows)
  /\ spreadsheet \in CleanSourceLists(MaxConsolidateRows)
  /\ supplier \in CleanSupplierLists(MaxConsolidateRows)
  /\ reverseLogistics \in CleanReturnLists
  /\ evalTime = 0
  /\ rawData = NoList /\ cleanedOnce = NoList /\ cleanedTwice = NoList
  /\ inconsistencies = NoResult /\ inconsistenciesSwapped = NoResult
  /\ disruptionAnalysis = NoResult /\ consolidated = NoResult
  /\ MergeIdle /\ SessionIdle /\ CsvIdle

Consolidate ==
  /\ pc = "start"
  /\ consolidated' \in consolidateData(legacy, spreadsheet, supplier, reverseLogistics)
  /\ pc' = "consolidated"
  /\ UNCHANGED <<rawData, cleanedOnce, cleanedTwice, legacy, spreadsheet,
                 supplier, reverseLogistics, evalTime, inconsistencies,
                 inconsistenciesSwapped, disruptionAnalysis,
                 mergeVars, sessionVars, csvVars>>

NextConsolidate == Consolidate

SpecConsolidate == InitConsolidate /\ [][NextConsolidate]_vars

----------------------------------------------------------------------------
(* Claims about the consolidator *)

\* the source rows as the consolidator reads them, in the order legacy,
\* spreadsheet, supplier (legacy, spreadsheet for orders)
SourceInvRows ==
  [i \in 1..Len(legacy) |-> InvRow(legacy[i], "Legacy")]
  \o [i \in 1..Len(spreadsheet) |-> InvRow(spreadsheet[i], "Spreadsheet")]
  \o [i \in 1..Len(supplier) |-> SupplierInvRow(supplier[i])]

SourceOrderRows ==
  [i \in 1..Len(legacy) |-> OrderRow(legacy[i], "Legacy")]
  \o [i \in 1..Len(spreadsheet) |-> OrderRow(spreadsheet[i], "Spreadsheet")]

\* no two rows of the list share a key
KeysDistinct(rows, keyCol) ==
  \A i, j \in 1..Len(rows) : i # j => rows[i][keyCol] # rows[j][keyCol]

\* C1: consolidateData never returns two inventory rows with the same
\* item_id, nor two order rows with the same order_id.
NoDuplicateKeys ==
  pc = "consolidated" =>
    /\ KeysDistinct(consolidated.inventory, "item_id")
    /\ KeysDistinct(consolidated.orders, "order_id")

\* item A1 and order O1 are carried, with dates, by the legacy and by the
\* spreadsheet source, and the consolidation has run
WitnessSharedKeys ==
  /\ pc = "consolidated"
  /\ \E i \in 1..Len(legacy) : \E j \in 1..Len(spreadsheet) :
       /\ legacy[i]["item_id"] = IdA1 /\ spreadsheet[j]["item_id"] = IdA1
       /\ legacy[i]["order_id"] = IdO1 /\ spreadsheet[j]["order_id"] = IdO1
       /\ Truthy(legacy[i]["last_updated"]) /\ Truthy(spreadsheet[j]["last_updated"])
  /\ Len(consolidated.inventory) >= 1 /\ Len(consolidated.orders) >= 1

\* the row has a key and a date value
Usable(r, keyCol) == Truthy(r[keyCol]) /\ Truthy(r.last_updated)

\* the date of the row parses
DateParses(r) == ~IsNaN(GetTime(r.last_updated))

\* the kept row o is a usable source row; no usable source row of its key has
\* a later date; and o is the first source row of its key with its date
KeptIsLatest(o, rows, keyCol) ==
  /\ \E i \in 1..Len(rows) : rows[i] = o /\ Usable(rows[i], keyCol)
  /\ DateParses(o) =>
       /\ \A j \in 1..Len(rows) :
            (Usable(rows[j], keyCol) /\ rows[j][keyCol] = o[keyCol] /\ DateParses(rows[j]))
              => GetTime(rows[j].last_updated).n <= GetTime(o.last_updated).n
       /\ \E i \in 1..Len(rows) :
            /\ rows[i] = o
            /\ \A j \in 1..(i - 1) :
                 ~(/\ Usable(rows[j], keyCol) /\ rows[j][keyCol] = o[keyCol]
                   /\ GetTime(rows[j].last_updated) = GetTime(o.last_updated))

\* C2: for each item_id (order_id) the kept row is the one with the latest
\* last_updated among the source rows carrying the key and a date (supplier
\* rows use shipment_date); among rows sharing the latest date, the one of the
\* earliest source in the order legacy, spreadsheet, supplier, named by _source.
KeepsLatestPerKey ==
  pc = "consolidated" =>
    /\ \A i \in 1..Len(consolidated.inventory) :
         KeptIsLatest(consolidated.inventory[i], SourceInvRows, "item_id")
    /\ \A i \in 1..Len(consolidated.orders) :
         KeptIsLatest(consolidated.orders[i], SourceOrderRows, "order_id")

\* C3: a source row without a last_updated value (shipment_date for a supplier
\* row) or without a key never appears in the consolidated inventory or orders
\* and determines no field of them: every consolidated row is, field for
\* field, a source row that has both.
ExcludesRowsWithoutKeyOrDate ==
  pc = "consolidated" =>
    /\ \A i \in 1..Len(consolidated.inventory) :
         LET o == consolidated.inventory[i] IN
           /\ Truthy(o.item_id) /\ Truthy(o.last_updated)
           /\ \E j \in 1..Len(SourceInvRows) : SourceInvRows[j] = o
    /\ \A i \in 1..Len(consolidated.orders) :
         LET o == consolidated.orders[i] IN
           /\ Truthy(o.order_id) /\ Truthy(o.last_updated)
           /\ \E j \in 1..Len(SourceOrderRows) : SourceOrderRows[j] = o

\* a source carries item A1 and order O1 on a row without last_updated, a
\* supplier row has no shipment_date, and the consolidation has run
WitnessRowWithoutDate ==
  /\ pc = "consolidated"
  /\ \E i \in 1..Len(legacy) :
       /\ legacy[i]["item_id"] = IdA1 /\ legacy[i]["order_id"] = IdO1
       /\ legacy[i]["last_updated"] = Null
  /\ \E i \in 1..Len(supplier) :
       Truthy(supplier[i]["item_id"]) /\ supplier[i]["shipment_date"] = Null
  /\ \E i \in 1..Len(consolidated.inventory) :
       consolidated.inventory[i].item_id = IdA1

\* number of rows of the list that carry the key
CountKey(rows, keyCol, k) ==
  Cardinality({i \in 1..Len(rows) : rows[i][keyCol] = k})

\* C4: every item_id carried by a legacy, spreadsheet or supplier row with a
\* usable key and date has exactly one consolidated inventory row, every
\* order_id carried by such a legacy or spreadsheet row exactly one
\* consolidated order row, and no consolidated row has a key that occurs in
\* no source row.
NoKeyDropped ==
  pc = "consolidated" =>
    /\ \A i \in 1..Len(legacy) :
         /\ (Truthy(legacy[i]["item_id"]) /\ Truthy(legacy[i]["last_updated"]))
              => CountKey(consolidated.inventory, "item_id", legacy[i]["item_id"]) = 1
         /\ (Truthy(legacy[i]["order_id"]) /\ Truthy(legacy[i]["last_updated"]))
              => CountKey(consolidated.orders, "order_id", legacy[i]["order_id"]) = 1
    /\ \A i \in 1..Len(spreadsheet) :
         /\ (Truthy(spreadsheet[i]["item_id"]) /\ Truthy(spreadsheet[i]["last_updated"]))
              => CountKey(consolidated.inventory, "item_id", spreadsheet[i]["item_id"]) = 1
         /\ (Truthy(spreadsheet[i]["order_id"]) /\ Truthy(spreadsheet[i]["last_updated"]))
              => CountKey(consolidated.orders, "order_id", spreadsheet[i]["order_id"]) = 1
    /\ \A i \in 1..Len(supplier) :
         (Truthy(supplier[i]["item_id"]) /\ Truthy(supplier[i]["shipment_date"]))
           => CountKey(consolidated.inventory, "item_id", supplier[i]["item_id"]) = 1
    /\ \A i \in 1..Len(consolidated.inventory) :
         \E r \in {legacy[j] : j \in 1..Len(legacy)}
                  \cup {spreadsheet[j] : j \in 1..Len(spreadsheet)}
                  \cup {supplier[j] : j \in 1..Len(supplier)} :
           r["item_id"] = consolidated.inventory[i].item_id
    /\ \A i \in 1..Len(consolidated.orders) :
         \E r \in {legacy[j] : j \in 1..Len(legacy)}
                  \cup {spreadsheet[j] : j \in 1..Len(spreadsheet)} :
           r["order_id"] = consolidated.orders[i].order_id

\* item C3 is carried by the supplier source only, and the consolidation has
\* run on it together with legacy and spreadsheet rows of other items
WitnessSupplierOnlyKey ==
  /\ pc = "consolidated"
  /\ \E i \in 1..Len(supplier) : supplier[i]["item_id"] = IdC3
  /\ Len(legacy) >= 1 /\ Len(spreadsheet) >= 1
  /\ \E i \in 1..Len(consolidated.inventory) :
       /\ consolidated.inventory[i].item_id = IdC3
       /\ consolidated.inventory[i]._source = "Supplier"
  /\ Len(consolidated.inventory) >= 2

----------------------------------------------------------------------------
(* Row objects in memory.  The heap is the sequence of the row objects     *)
(* allocated so far, a row list is a sequence of addresses into it.  A     *)
(* write through one list is seen through every list that holds the same   *)
(* address.                                                                *)

RangeOf(seq) == {seq[i] : i \in 1..Len(seq)}
MaxOf(S) == CHOOSE x \in S : \A y \in S : y <= x

\* new row objects holding the given rows
Alloc(h, rows) ==
  [heap |-> h \o rows, refs |-> [i \in 1..Len(rows) |-> Len(h) + i]]

\* the rows a list holds
Deref(h, refs) == [i \in 1..Len(refs) |-> h[refs[i]]]

\* JSON.parse(JSON.stringify(list)): new objects, values as JSON keeps them
DeepCopyList(h, refs) == Alloc(h, JsonCopy(Deref(h, refs)))

\* the five lists of a SourceData object
SourceNames == <<"legacy", "spreadsheet", "supplier", "reverseLogistics",
                 "historicalBackup">>

SourceDataOf(h, data) == [name \in RangeOf(SourceNames) |-> Deref(h, data[name])]

\* new row objects for the five lists of a SourceData value
AllocSources(h, lists) ==
  LET a1 == Alloc(h, lists.legacy)
      a2 == Alloc(a1.heap, lists.spreadsheet)
      a3 == Alloc(a2.heap, lists.supplier)
      a4 == Alloc(a3.heap, lists.reverseLogistics)
      a5 == Alloc(a4.heap, lists.historicalBackup)
  IN  [heap |-> a5.heap,
       data |-> [legacy |-> a1.refs, spreadsheet |-> a2.refs,
                 supplier |-> a3.refs, reverseLogistics |-> a4.refs,
                 historicalBackup |-> a5.refs]]

\* a merger that works on the caller's own objects
DeepCopySourcesShared(h, src) == [heap |-> h, data |-> src]

\* const updatedSources = JSON.parse(JSON.stringify(originalSources))
DeepCopySources(h, src) == AllocSources(h, [name \in RangeOf(SourceNames) |-> JsonCopy(Deref(h, src[name]))])

----------------------------------------------------------------------------
(* cleanData on row objects: the deep copy is cleaned in place *)

\* the body of df.forEach for one row
CleanedRow(row, qtyColumns) ==
  [f \in Fields |->
    IF f \in qtyColumns THEN CleanQty(row[f])
    ELSE IF f \in textColumns THEN CleanText(row[f])
    ELSE row[f]]

cleanDataOnHeap(h, data) ==
  IF Len(data) = 0 THEN [heap |-> h, refs |-> <<>>]
  ELSE LET df == DeepCopyList(h, data)
           qtyColumns == {col \in Keys(df.heap[df.refs[1]]) : IsQtyColumn(col)}
       IN  [heap |-> [a \in 1..Len(df.heap) |->
                       IF a \in RangeOf(df.refs)
                       THEN CleanedRow(df.heap[a], qtyColumns)
                       ELSE df.heap[a]],
            refs |-> df.refs]

----------------------------------------------------------------------------
(* mergeAiFixesIntoSources *)

\* obj[key] of an object that may lack the property
Prop(obj, key) == IF key \in DOMAIN obj THEN obj[key] ELSE Undefined

\* new Map(consolidatedData.map(item => [item[idField], item])).get(key):
\* a later item replaces an earlier one under the same key
MapLookup(consolidatedData, idField, key) ==
  LET hits == {i \in 1..Len(consolidatedData) :
                 Prop(consolidatedData[i], idField) = key}
  IN  IF hits = {} THEN NoResult ELSE consolidatedData[MaxOf(hits)]

\* const invMapping = { item_name, inventory_qty, last_updated }
invMapping == {"item_name", "inventory_qty", "last_updated"}
\* const orderMapping = { order_qty, last_updated }
orderMapping == {"order_qty", "last_updated"}

\* the for (const destKey in mappings) loop on one row
ApplyMappings(row, correctedItem, mappings) ==
  [f \in Fields |->
    IF f \in mappings /\ Prop(correctedItem, f) # Undefined
    THEN correctedItem[f] ELSE row[f]]

\* updateSource: rewrites the row objects of sourceArray in place
updateSource(h, sourceArray, consolidatedData, idField, mappings) ==
  [a \in 1..Len(h) |->
    IF a \in RangeOf(sourceArray)
    THEN LET correctedItem == MapLookup(consolidatedData, idField, h[a][idField])
         IN  IF correctedItem = NoResult THEN h[a]
             ELSE ApplyMappings(h[a], correctedItem, mappings)
    ELSE h[a]]

\* const { consolidatedInventory, consolidatedOrders } = aiFixedData, tested
\* for truthiness
HasList(aiFixed, name) == name \in DOMAIN aiFixed

mergeAiFixesIntoSources(h, origSources, aiFixed) ==
  LET copy == DeepCopySources(h, origSources)
      updated == copy.data
      h1 == IF HasList(aiFixed, "consolidatedInventory")
            THEN updateSource(
                   updateSource(copy.heap, updated.legacy,
                                aiFixed.consolidatedInventory, "item_id", invMapping),
                   updated.spreadsheet,
                   aiFixed.consolidatedInventory, "item_id", invMapping)
            ELSE copy.heap
      h2 == IF HasList(aiFixed, "consolidatedOrders")
            THEN updateSource(
                   updateSource(h1, updated.legacy,
                                aiFixed.consolidatedOrders, "order_id", orderMapping),
                   updated.spreadsheet,
                   aiFixed.consolidatedOrders, "order_id", orderMapping)
            ELSE h1
  IN  [heap |-> h2, data |-> updated]

\* the SourceData value the merger returns for SourceData and corrections
\* given by value
MergedSourceData(sourceData, aiFixed) ==
  LET a == AllocSources(<<>>, sourceData)
      m == mergeAiFixesIntoSources(a.heap, a.data, aiFixed)
  IN  SourceDataOf(m.heap, m.data)

----------------------------------------------------------------------------
(* Specification of the correction merger: the five parsed sources are     *)
(* cleaned as processFiles cleans them, then a corrected view is merged    *)
(* into the cleaned sources as handleAutoFix does.                         *)

\* Rows per source file handed to the merger.
MaxMergeRows == 1

\* the variables of the engine's components while the merger or the session
\* is analysed
PipelineIdle ==
  /\ rawData = NoList /\ cleanedOnce = NoList /\ cleanedTwice = NoList
  /\ legacy = NoList /\ spreadsheet = NoList /\ supplier = NoList
  /\ reverseLogistics = NoList /\ evalTime = 0
  /\ inconsistencies = NoResult /\ inconsistenciesSwapped = NoResult
  /\ disruptionAnalysis = NoResult /\ consolidated = NoResult

\* parsed rows of a legacy or spreadsheet file
ParsedSourceRows ==
  { SourceRow(IdA1raw, Str(<<"5">>), IdO1, Str(<<"7">>), Date0101),
    SourceRow(IdB2, Str(InfinityLiteral), Null, Null, Date0102),
    \* a file that has only the order columns
    [EmptyRow EXCEPT !["order_id"] = IdO2, !["order_qty"] = Str(<<"5">>),
                     !["last_updated"] = Date0101] }

\* parsed rows of a supplier file
ParsedSupplierRows ==
  { SupplierRow(IdA1, Str(<<"5","0">>), Date0102),
    SupplierRow(IdB2, Str(InfinityLiteral), Date0101) }

ParsedSourceLists == {d \in SeqUpTo(ParsedSourceRows, MaxMergeRows) : SameHeader(d)}
ParsedSupplierLists == SeqUpTo(ParsedSupplierRows, MaxMergeRows)
ParsedReturnLists == SeqUpTo(RawReturnRows, 1)
ParsedBackupLists ==
  {<<>>, <<SourceRow(IdA1, Str(<<"5">>), IdO1, Str(<<"7">>), Date0101)>>}

\* rows of a corrected consolidated view, as the collaborator may send them
SourceAiCorrected == "AI-Corrected"
FixedA1 ==
  [item_id |-> IdA1, item_name |-> Str(<<"W">>), inventory_qty |-> Num(6),
   last_updated |-> Date0102, _source |-> SourceAiCorrected]
FixedA1Partial == [item_id |-> IdA1, inventory_qty |-> Null, _source |-> "Legacy"]
FixedB2 ==
  [item_id |-> IdB2, item_name |-> Str(<<"W">>), inventory_qty |-> Num(3),
   last_updated |-> Date0101, _source |-> SourceAiCorrected]
FixedNoKey ==
  [inventory_qty |-> Num(1), last_updated |-> Date0102,
   _source |-> SourceAiCorrected]
FixedO1 ==
  [order_id |-> IdO1, order_qty |-> Num(9), last_updated |-> Date0102,
   _source |-> SourceAiCorrected]

FixedInventoryLists ==
  {<<>>, <<FixedA1>>, <<FixedA1, FixedA1Partial>>, <<FixedB2>>, <<FixedNoKey>>}
FixedOrderLists == {<<>>, <<FixedO1>>}

\* Partial<ProcessedData>: either list may be missing
CorrectedViews ==
  {[consolidatedReturns |-> <<>>]}
  \cup {[consolidatedInventory |-> inv] : inv \in FixedInventoryLists}
  \cup {[consolidatedOrders |-> ord] : ord \in FixedOrderLists}
  \cup {[consolidatedInventory |-> inv, consolidatedOrders |-> ord] :
          inv \in FixedInventoryLists, ord \in FixedOrderLists}

InitMerge ==
  /\ pc = "parsed"
  /\ \E leg \in ParsedSourceLists, spr \in ParsedSourceLists,
        sup \in ParsedSupplierLists, rev \in ParsedReturnLists,
        bak \in ParsedBackupLists :
       LET a == AllocSources(<<>>, [legacy |-> leg, spreadsheet |-> spr,
                                    supplier |-> sup, reverseLogistics |-> rev,
                                    historicalBackup |-> bak])
       IN  heap = a.heap /\ parsedSources = a.data
  /\ originalSources = NoResult /\ aiFixedData = NoResult
  /\ updatedSources = NoResult
  /\ PipelineIdle /\ SessionIdle /\ CsvIdle

\* legacyData = cleanData(legacyData, ...) and so on for the five sources
CleanSources ==
  /\ pc = "parsed"
  /\ LET c1 == cleanDataOnHeap(heap, parsedSources.legacy)
         c2 == cleanDataOnHeap(c1.heap, parsedSources.spreadsheet)
         c3 == cleanDataOnHeap(c2.heap, parsedSources.supplier)
         c4 == cleanDataOnHeap(c3.heap, parsedSources.reverseLogistics)
         c5 == cleanDataOnHeap(c4.heap, parsedSources.historicalBackup)
     IN  /\ heap' = c5.heap
         /\ originalSources' =
              [legacy |-> c1.refs, spreadsheet |-> c2.refs, supplier |-> c3.refs,
               reverseLogistics |-> c4.refs, historicalBackup |-> c5.refs]
  /\ pc' = "cleaned"
  /\ UNCHANGED <<rawData, cleanedOnce, cleanedTwice, legacy, spreadsheet,
                 supplier, reverseLogistics, evalTime, inconsistencies,
                 inconsistenciesSwapped, disruptionAnalysis, consolidated,
                 parsedSources, aiFixedData, updatedSources, sessionVars, csvVars>>

\* mergeAiFixesIntoSources(results.sourceData, fixedData)
MergeFixes ==
  /\ pc = "cleaned"
  /\ \E fixedData \in CorrectedViews :
       LET m == mergeAiFixesIntoSources(heap, originalSources, fixedData)
       IN  /\ heap' = m.heap
           /\ updatedSources' = m.data
           /\ aiFixedData' = fixedData
  /\ pc' = "merged"
  /\ UNCHANGED <<rawData, cleanedOnce, cleanedTwice, legacy, spreadsheet,
                 supplier, reverseLogistics, evalTime, inconsistencies,
                 inconsistenciesSwapped, disruptionAnalysis, consolidated,
                 parsedSources, originalSources, sessionVars, csvVars>>

NextMerge == CleanSources \/ MergeFixes

SpecMerge == InitMerge /\ [][NextMerge]_vars

----------------------------------------------------------------------------
(* Claims about the correction merger *)

\* C11: the supplier and reverseLogistics lists the merger returns are equal,
\* row for row and field for field, to the original lists.
SupplierAndReturnsReturnedAsGiven ==
  [][pc = "cleaned" /\ pc' = "merged" =>
       \A name \in {"supplier", "reverseLogistics"} :
         Deref(heap', updatedSources'[name]) = Deref(heap, originalSources[name])]_vars

\* the row's key is the key of some row of the corrected list
KeyMatches(aiFixed, listName, idField, row) ==
  /\ HasList(aiFixed, listName)
  /\ \E j \in 1..Len(aiFixed[listName]) :
       Prop(aiFixed[listName][j], idField) = row[idField]

\* C12: in the legacy and spreadsheet lists the merger changes only
\* item_name, inventory_qty and last_updated of rows whose item_id matches a
\* corrected inventory row, and order_qty and last_updated of rows whose
\* order_id matches a corrected order row; the number and order of rows stay.
OnlyMappedFieldsOfMatchedRowsChange ==
  [][pc = "cleaned" /\ pc' = "merged" =>
       \A name \in {"legacy", "spreadsheet"} :
         LET old == Deref(heap, originalSources[name])
             new == Deref(heap', updatedSources'[name])
         IN  /\ Len(new) = Len(old)
             /\ \A i \in 1..Len(old) : \A f \in Fields :
                  new[i][f] # old[i][f] =>
                    \/ /\ f \in invMapping
                       /\ KeyMatches(aiFixedData', "consolidatedInventory",
                                     "item_id", old[i])
                    \/ /\ f \in orderMapping
                       /\ KeyMatches(aiFixedData', "consolidatedOrders",
                                     "order_id", old[i])]_vars

\* C13: neither cleanData nor mergeAiFixesIntoSources mutates its input: the
\* caller's lists and every row object in them hold after the call what
\* they held before it.
InputsNotMutated ==
  [][/\ \A a \in 1..Len(heap) : heap'[a] = heap[a]
     /\ parsedSources' = parsedSources
     /\ (pc # "parsed" => originalSources' = originalSources)]_vars

\* both calls have written: a cleaned row differs from the parsed row, a
\* merged row from the cleaned row
WitnessCopiesRewritten ==
  /\ pc = "merged"
  /\ \E i \in 1..Len(parsedSources.legacy) :
       /\ heap[originalSources.legacy[i]] # heap[parsedSources.legacy[i]]
       /\ heap[updatedSources.legacy[i]] # heap[originalSources.legacy[i]]

----------------------------------------------------------------------------
(* parseCSV *)

\* s.split(sep) for a one-character separator: the pieces between
\* consecutive separators
Split(s, sep) ==
  LET seps == {i \in 1..Len(s) : s[i] = sep}
      count == Cardinality(seps)
      SepAt(k) == CHOOSE i \in seps : Cardinality({j \in seps : j < i}) = k - 1
  IN  [k \in 1..(count + 1) |->
        SubSeq(s, IF k = 1 THEN 1 ELSE SepAt(k - 1) + 1,
                  IF k = count + 1 THEN Len(s) ELSE SepAt(k) - 1)]

\* s.split(/\r?\n/): a carriage return right before the line feed belongs
\* to the separator
SplitLines(s) ==
  LET pieces == Split(s, "\n")
      DropCr(piece) ==
        IF Len(piece) > 0 /\ piece[Len(piece)] = "\r"
        THEN SubSeq(piece, 1, Len(piece) - 1) ELSE piece
  IN  [i \in 1..Len(pieces) |->
        IF i < Len(pieces) THEN DropCr(pieces[i]) ELSE pieces[i]]

\* a cell value that keeps the empty string
CellValueKeepingEmpty(values, index) ==
  IF index > Len(values) THEN Null ELSE Str(Trim(values[index]))

\* values[index]?.trim() || null, then the surrounding quotes are removed
CellValue(values, index) ==
  IF index > Len(values) THEN Null
  ELSE LET value == Trim(values[index])
       IN  IF value = <<>> THEN Null
           ELSE IF value[1] = "\"" /\ value[Len(value)] = "\""
                THEN Str(SubSeq(value, 2, Len(value) - 1))
                ELSE Str(value)

\* header.reduce((obj, nextKey, index) => ...): a later column of the same
\* name replaces an earlier one
ParseLine(header, line) ==
  LET values == Split(line, ",")
  IN  [f \in Fields |->
        LET columns == {i \in 1..Len(header) : header[i] = FieldSpelling[f]}
        IN  IF columns = {} THEN Undefined
            ELSE CellValue(values, MaxOf(columns))]

parseCSV(text) ==
  LET lines == SplitLines(Trim(text))
  IN  IF Len(lines) < 2 THEN <<>>
      ELSE LET cells == Split(lines[1], ",")
               header == [i \in 1..Len(cells) |-> Trim(cells[i])]
           IN  [i \in 1..(Len(lines) - 1) |-> ParseLine(header, lines[i + 1])]

----------------------------------------------------------------------------
(* Files of a session *)

\* pieces joined by a separator character
RECURSIVE Join(_, _)
Join(pieces, sep) ==
  IF Len(pieces) = 0 THEN <<>>
  ELSE IF Len(pieces) = 1 THEN pieces[1]
  ELSE pieces[1] \o <<sep>> \o Join(Tail(pieces), sep)

\* the text of a CSV file with the given lines of cells
CsvText(lines) == Join([i \in 1..Len(lines) |-> Join(lines[i], ",")], "\n")

\* a File, by the text it holds
CsvFile(text) == [text |-> text]

LegacyFile ==
  CsvFile(CsvText(<<
    <<FieldSpelling["item_id"], FieldSpelling["inventory_qty"],
      FieldSpelling["order_id"], FieldSpelling["order_qty"],
      FieldSpelling["last_updated"]>>,
    <<IdA1raw.s, <<"5">>, IdO1.s, <<"7">>, Date0101.s>>,
    <<IdB2.s, <<"3">>, IdO2.s, <<"N","A">>, Date0101.s>> >>))

SpreadsheetFile ==
  CsvFile(CsvText(<<
    <<FieldSpelling["item_id"], FieldSpelling["inventory_qty"],
      FieldSpelling["order_id"], FieldSpelling["order_qty"],
      FieldSpelling["last_updated"]>>,
    <<IdA1.s, <<"7">>, IdO1.s, <<"7">>, Date0102.s>> >>))

SupplierFile ==
  CsvFile(CsvText(<<
    <<FieldSpelling["item_id"], FieldSpelling["shipment_qty"],
      FieldSpelling["shipment_date"]>>,
    <<IdA1.s, <<"5","0">>, ShipTenDaysBefore.s>> >>))

ReturnsFile ==
  CsvFile(CsvText(<<
    <<FieldSpelling["return_id"], FieldSpelling["item_id"]>>,
    <<<<"r","1">>, IdA1.s>> >>))

\* the files a user puts into each upload slot; the backup slot is left empty
FilePool ==
  [type \in FileTypes |->
    CASE type = "legacy"           -> {LegacyFile}
      [] type = "spreadsheet"      -> {SpreadsheetFile}
      [] type = "supplier"         -> {SupplierFile}
      [] type = "reverseLogistics" -> {ReturnsFile}
      [] type = "historicalBackup" -> {}]

----------------------------------------------------------------------------
(* generateCsvContent *)

\* the decimal digits of a natural number
RECURSIVE DigitsOf(_)
DigitsOf(n) ==
  IF n < 10 THEN <<DigitChars[n + 1]>>
  ELSE Append(DigitsOf(n \div 10), DigitChars[(n % 10) + 1])

\* String(val) of a cell that is not null or undefined
StringOf(val) ==
  CASE val.t = "string"   -> val.s
    [] val.t = "number"   -> IF val.n < 0 THEN <<"-">> \o DigitsOf(0 - val.n)
                             ELSE DigitsOf(val.n)
    [] val.t = "infinity" -> IF val.n < 0 THEN <<"-">> \o InfinityLiteral
                             ELSE InfinityLiteral
    [] OTHER              -> <<"N","a","N">>

\* strVal.replace(/"/g, '""')
RECURSIVE DoubleQuotes(_)
DoubleQuotes(s) ==
  IF s = <<>> THEN <<>>
  ELSE (IF Head(s) = "\"" THEN <<"\"", "\"">> ELSE <<Head(s)>>)
       \o DoubleQuotes(Tail(s))

\* the cell written for row[header]
CsvCell(val) ==
  IF val = Null \/ val = Undefined THEN <<>>
  ELSE LET strVal == StringOf(val)
       IN  IF Includes(strVal, <<",">>)
           THEN <<"\"">> \o DoubleQuotes(strVal) \o <<"\"">>
           ELSE strVal

\* generateCsvContent(data); headers is Object.keys(data[0]), the first
\* row's property names in insertion order, which a row of the model does
\* not carry
generateCsvContent(data, headers) ==
  IF Len(data) = 0 THEN <<>>
  ELSE LET headerRow == Join([k \in 1..Len(headers) |-> FieldSpelling[headers[k]]], ",")
           rows == [i \in 1..Len(data) |->
                     Join([k \in 1..Len(headers) |-> CsvCell(data[i][headers[k]])], ",")]
       IN  Join(<<headerRow>> \o rows, "\n")

----------------------------------------------------------------------------
(* processFiles *)

\* a settled promise: resolved with a value or rejected with an Error
Resolved(value) == [ok |-> TRUE, message |-> "", value |-> value]
Rejected(message) == [ok |-> FALSE, message |-> message, value |-> NoResult]

\* report: string | AiReport
ReportText(text) ==
  [t |-> "string", text |-> text, fixesApplied |-> <<>>,
   rootCauseAnalysis |-> <<>>, recommendations |-> <<>>]
ReportObject(fixesApplied, rootCauseAnalysis, recommendations) ==
  [t |-> "object", text |-> "", fixesApplied |-> fixesApplied,
   rootCauseAnalysis |-> rootCauseAnalysis,
   recommendations |-> recommendations]

MissingFilesMessage == "Missing one or more mandatory data files."
ProcessFailedMessage ==
  "Failed to read or process one of the files. Please ensure they are valid CSVs."
InitialReport ==
  ReportText("Initial report. Run 'Auto-Fix with AI' for detailed analysis.")

\* one step per inconsistency, or the single step of aligned data
proposeCleaningSteps(found) ==
  IF Len(found) = 0
  THEN <<[text |-> "No inconsistencies found. Data appears aligned.",
          type |-> "", records |-> 0]>>
  ELSE [i \in 1..Len(found) |->
         [text |-> "Resolve: Use most recent data or manual verification",
          type |-> found[i].type, records |-> Len(found[i].details)]]

\* files.legacy && files.spreadsheet && files.supplier
MandatoryFilesUploaded(fileState) ==
  /\ fileState["legacy"] # NoFile
  /\ fileState["spreadsheet"] # NoFile
  /\ fileState["supplier"] # NoFile

\* readFileAsText of a slot; an empty optional slot reads as ""
FileText(fileState, type) ==
  IF fileState[type] = NoFile THEN <<>> ELSE fileState[type].text

\* the body of the try block: FileReader may fail on any file it is given
\* (reader.onerror); otherwise one result for each outcome of the two sorts
ProcessFilesBody(fileState, now) ==
  IF ~MandatoryFilesUploaded(fileState)
  THEN {Rejected(MissingFilesMessage)}
  ELSE
    {Rejected("FileReader error")} \cup
    LET legacyData == cleanData(parseCSV(FileText(fileState, "legacy")))
        spreadsheetData == cleanData(parseCSV(FileText(fileState, "spreadsheet")))
        supplierData == cleanData(parseCSV(FileText(fileState, "supplier")))
        reverseLogisticsData ==
          cleanData(parseCSV(FileText(fileState, "reverseLogistics")))
        historicalBackupData ==
          cleanData(parseCSV(FileText(fileState, "historicalBackup")))
        found == identifyInconsistencies(legacyData, spreadsheetData)
    IN  { Resolved(
            [inconsistencies |-> found,
             cleaningSteps |-> proposeCleaningSteps(found),
             consolidatedInventory |-> c.inventory,
             consolidatedOrders |-> c.orders,
             consolidatedReturns |-> c.returns,
             report |-> InitialReport,
             disruptionAnalysis |->
               calculateDisruption(legacyData, spreadsheetData, supplierData, now),
             sourceData |->
               [legacy |-> legacyData, spreadsheet |-> spreadsheetData,
                supplier |-> supplierData,
                reverseLogistics |-> reverseLogisticsData,
                historicalBackup |-> historicalBackupData]]) :
          c \in consolidateData(legacyData, spreadsheetData, supplierData,
                                reverseLogisticsData) }

\* a processFiles that resolves with empty results where the body throws
processFilesResolvingEmpty(fileState, now) ==
  { IF outcome.ok THEN outcome
    ELSE Resolved([inconsistencies |-> <<>>, cleaningSteps |-> <<>>,
                   consolidatedInventory |-> <<>>, consolidatedOrders |-> <<>>,
                   consolidatedReturns |-> <<>>, report |-> InitialReport,
                   disruptionAnalysis |-> NoResult,
                   sourceData |-> [legacy |-> <<>>, spreadsheet |-> <<>>,
                                   supplier |-> <<>>, reverseLogistics |-> <<>>,
                                   historicalBackup |-> <<>>]]) :
      outcome \in ProcessFilesBody(fileState, now) }

\* whatever is thrown in the try block is replaced by one Error
processFiles(fileState, now) ==
  { IF outcome.ok THEN outcome ELSE Rejected(ProcessFailedMessage) :
      outcome \in ProcessFilesBody(fileState, now) }

----------------------------------------------------------------------------
(* getAiFixSuggestions *)

\* the text of a collaborator response: possibly inside a Markdown fence, and
\* either no JSON document, or the document null, a number, or an object given
\* by its properties
AiText(fence, doc, value) == [fence |-> fence, doc |-> doc, value |-> value]

\* ai.models.generateContent rejects, or resolves with a response text
CallRejected == [kind |-> "rejected", text |-> AiText(FALSE, "invalid", NoResult)]
CallResolved(text) == [kind |-> "resolved", text |-> text]

\* JSON.stringify of the row lists, as the prompt carries them; a list
\* without rows is carried as "Not provided." / "None automatically
\* detected.", that is as no rows
generatePrompt(sourceData, found) ==
  [legacy |-> JsonCopy(sourceData.legacy),
   spreadsheet |-> JsonCopy(sourceData.spreadsheet),
   supplier |-> JsonCopy(sourceData.supplier),
   reverseLogistics |->
     IF Len(sourceData.reverseLogistics) > 0
     THEN JsonCopy(sourceData.reverseLogistics) ELSE <<>>,
   historicalBackup |->
     IF Len(sourceData.historicalBackup) > 0
     THEN JsonCopy(sourceData.historicalBackup) ELSE <<>>,
   inconsistencies |-> IF Len(found) > 0 THEN found ELSE <<>>]

\* jsonStr.match(fenceRegex): the text inside the fence
StripFence(text) == IF text.fence THEN [text EXCEPT !.fence = FALSE] ELSE text

\* JSON.parse(jsonStr)
JsonParse(jsonStr) ==
  IF jsonStr.fence \/ jsonStr.doc = "invalid" THEN Rejected("SyntaxError")
  ELSE Resolved([doc |-> jsonStr.doc, value |-> jsonStr.value])

\* a coercion that loses the string
CoerceReportLosingText(parsedData) ==
  IF /\ parsedData.doc = "object"
     /\ "report" \in DOMAIN parsedData.value
     /\ parsedData.value.report.t = "string"
  THEN [parsedData EXCEPT !.value.report = ReportObject(<<>>, <<>>, <<>>)]
  ELSE parsedData

\* if (typeof parsedData.report === 'string') parsedData.report = {...}
CoerceReport(parsedData) ==
  IF /\ parsedData.doc = "object"
     /\ "report" \in DOMAIN parsedData.value
     /\ parsedData.value.report.t = "string"
  THEN [parsedData EXCEPT !.value.report =
          ReportObject(<<parsedData.value.report.text>>, <<>>, <<>>)]
  ELSE parsedData

InvalidFormatMessage == "AI returned an invalid data format. Please try again."
ServiceFailedMessage ==
  "The AI service failed to process the request. Please check your connection or API key."

\* the inner try: JSON.parse throws on text that is no JSON, reading .report
\* of null throws; the catch throws the invalid-format Error
ParseResponse(jsonStr) ==
  LET parsed == JsonParse(jsonStr)
  IN  IF ~parsed.ok \/ parsed.value.doc = "null"
      THEN Rejected(InvalidFormatMessage)
      ELSE Resolved(CoerceReport(parsed.value))

\* the outer catch: whatever is thrown in the outer try block, the Error of
\* the inner catch included, is replaced by the service Error
OuterCatch(outcome) ==
  IF outcome.ok THEN outcome ELSE Rejected(ServiceFailedMessage)

\* the outcome of getAiFixSuggestions for the collaborator's answer to the
\* prompt
getAiFixSuggestions(prompt, response) ==
  IF response.kind = "rejected" THEN OuterCatch(Rejected("fetch failed"))
  ELSE OuterCatch(ParseResponse(StripFence(response.text)))

----------------------------------------------------------------------------
(* The App component: one reconciliation session.  The theme, the view   *)
(* mode, the report dialog's visibility and the chat transcript are       *)
(* display state and not part of the model; a failure to start the chat   *)
(* is, because it sets the session's error message.                       *)

engineVars == <<pc, rawData, cleanedOnce, cleanedTwice, legacy, spreadsheet,
                supplier, reverseLogistics, evalTime, inconsistencies,
                inconsistenciesSwapped, disruptionAnalysis, consolidated>>

\* collaborator responses
AiReportSample == ReportObject(<<"fix">>, <<"cause">>, <<"advice">>)
FixedA1Untagged ==
  [item_id |-> IdA1, item_name |-> Str(<<"W">>), inventory_qty |-> Num(4),
   last_updated |-> Date0101]
WellFormedObject ==
  [consolidatedInventory |-> <<FixedA1, FixedB2>>,
   consolidatedOrders |-> <<FixedO1>>,
   consolidatedReturns |-> <<>>,
   report |-> AiReportSample]
BareReportObject == [WellFormedObject EXCEPT !.report = ReportText("done")]
\* two of the four fields and a field of its own, two rows of one key, a row
\* without _source
MalformedObject ==
  [consolidatedInventory |-> <<FixedA1, FixedA1Untagged>>,
   report |-> AiReportSample,
   cleaningSteps |-> <<>>]

AiResponses ==
  { CallRejected,
    CallResolved(AiText(FALSE, "invalid", NoResult)),
    CallResolved(AiText(FALSE, "null", NoResult)),
    CallResolved(AiText(FALSE, "object", WellFormedObject)),
    CallResolved(AiText(TRUE, "object", BareReportObject)),
    CallResolved(AiText(FALSE, "object", MalformedObject)) }

\* the values a user can type into the two editable cells of a row:
\* parseInt of the quantity cell, a level that is a number >= 0
OverrideValues ==
  [inventory_qty |-> {Num(9)}, reorder_level |-> {Num(2)}]

ChatFailedMessage == "Failed to initialize AI Chat."

\* the own properties of the value getAiFixSuggestions resolved with
OwnProps(fixedData) ==
  IF fixedData.doc = "object" THEN fixedData.value ELSE NoResult

\* { ...prev, ...fixedData, inconsistencies: [] }
SpreadFixedData(prev, fixedData) ==
  IF fixedData.doc = "object"
  THEN [k \in DOMAIN prev \cup DOMAIN fixedData.value |->
         IF k = "inconsistencies" THEN <<>>
         ELSE IF k \in DOMAIN fixedData.value THEN fixedData.value[k]
         ELSE prev[k]]
  ELSE [prev EXCEPT !.inconsistencies = <<>>]

\* manualOverrides[itemId]: the override object of an item, if any
NoOverride(itemId) ==
  [item_id |-> itemId, inventory_qty |-> Undefined, reorder_level |-> Undefined]
OverrideOf(overrides, itemId) ==
  IF \E o \in overrides : o.item_id = itemId
  THEN CHOOSE o \in overrides : o.item_id = itemId
  ELSE NoOverride(itemId)
HasOverride(overrides, itemId) == \E o \in overrides : o.item_id = itemId

\* the body of results.consolidatedInventory.map in resultsWithOverrides; a
\* property whose value is undefined counts as not set
OverlaidItem(item, overrides) ==
  LET itemId == Prop(item, "item_id")
      override == OverrideOf(overrides, itemId)
  IN  IF ~HasOverride(overrides, itemId) THEN item
      ELSE [k \in (DOMAIN item
                   \cup (IF override.inventory_qty # Undefined
                         THEN {"inventory_qty", "_source"} ELSE {})
                   \cup (IF override.reorder_level # Undefined
                         THEN {"reorder_level"} ELSE {})) |->
             CASE k = "inventory_qty" ->
                    IF override.inventory_qty # Undefined
                    THEN override.inventory_qty ELSE item[k]
               [] k = "reorder_level" ->
                    IF override.reorder_level # Undefined
                    THEN override.reorder_level ELSE item[k]
               [] k = "_source" ->
                    IF override.inventory_qty # Undefined
                    THEN "Manual" ELSE item[k]
               [] OTHER -> item[k]]

\* what the dashboard shows: results with the overrides laid over the
\* consolidated inventory
resultsWithOverrides ==
  IF results = NoResult THEN NoResult
  ELSE [results EXCEPT !.consolidatedInventory =
          [i \in 1..Len(results.consolidatedInventory) |->
            OverlaidItem(results.consolidatedInventory[i], manualOverrides)]]

InitSession ==
  /\ pc = "session"
  /\ PipelineIdle /\ MergeIdle /\ SessionIdle /\ CsvIdle

\* handleFileLoad(type, file)
HandleFileLoad(type, file) ==
  /\ files' = [files EXCEPT ![type] = file]
  /\ results' = NoResult
  /\ manualOverrides' = {}
  /\ aiReportContent' = NoResult
  /\ aiFixedSourceData' = NoResult
  /\ UNCHANGED <<engineVars, mergeVars, csvVars, isLoading, isFixing, error,
                 reconcileCall, fixCall>>

\* a clear that keeps the overrides
HandleFileClearKeepingOverrides(type) ==
  /\ files[type] # NoFile
  /\ files' = [files EXCEPT ![type] = NoFile]
  /\ results' = NoResult
  /\ aiReportContent' = NoResult
  /\ aiFixedSourceData' = NoResult
  /\ UNCHANGED <<engineVars, mergeVars, csvVars, isLoading, isFixing, error,
                 manualOverrides, reconcileCall, fixCall>>

\* handleFileClear(type); the card offers it for a slot that holds a file
HandleFileClear(type) ==
  /\ files[type] # NoFile
  /\ files' = [files EXCEPT ![type] = NoFile]
  /\ results' = NoResult
  /\ manualOverrides' = {}
  /\ aiReportContent' = NoResult
  /\ aiFixedSourceData' = NoResult
  /\ UNCHANGED <<engineVars, mergeVars, csvVars, isLoading, isFixing, error,
                 reconcileCall, fixCall>>

\* the Reconcile button: disabled={!mandatoryFilesUploaded || isLoading || isFixing}
ReconcileEnabled ==
  MandatoryFilesUploaded(files) /\ ~isLoading /\ ~isFixing

\* handleReconcile up to await processFiles(files)
HandleReconcile ==
  /\ ReconcileEnabled
  /\ MandatoryFilesUploaded(files)
  /\ isLoading' = TRUE
  /\ error' = NoError
  /\ results' = NoResult
  /\ manualOverrides' = {}
  /\ aiReportContent' = NoResult
  /\ aiFixedSourceData' = NoResult
  /\ reconcileCall' = [phase |-> "processFiles", files |-> files]
  /\ UNCHANGED <<engineVars, mergeVars, csvVars, files, isFixing, fixCall>>

\* processFiles resolves: setResults, then initializeChat up to its await
\* (or to its catch, when startChat throws); or it rejects: catch and finally
ProcessFilesSettles ==
  /\ reconcileCall.phase = "processFiles"
  /\ \E now \in EvalTimes : \E outcome \in processFiles(reconcileCall.files, now) :
       IF outcome.ok
       THEN /\ results' = outcome.value
            /\ \/ /\ reconcileCall' = [phase |-> "initializeChat"]
                  /\ UNCHANGED <<error, isLoading>>
               \/ /\ error' = ChatFailedMessage
                  /\ isLoading' = FALSE
                  /\ reconcileCall' = NoCall
       ELSE /\ error' = outcome.message
            /\ isLoading' = FALSE
            /\ reconcileCall' = NoCall
            /\ UNCHANGED results
  /\ UNCHANGED <<engineVars, mergeVars, csvVars, files, isFixing, manualOverrides,
                 aiReportContent, aiFixedSourceData, fixCall>>

\* the first chat message settles: catch if it failed, finally of
\* initializeChat, finally of handleReconcile
InitializeChatSettles(answered) ==
  /\ reconcileCall.phase = "initializeChat"
  /\ error' = IF answered THEN error ELSE ChatFailedMessage
  /\ isLoading' = FALSE
  /\ reconcileCall' = NoCall
  /\ UNCHANGED <<engineVars, mergeVars, csvVars, files, results, isFixing,
                 manualOverrides, aiReportContent, aiFixedSourceData, fixCall>>

\* where the dashboard offers the correction: the visualizer's button
\* (shown with results, not while loading, with inventory rows) and the
\* sidebar's button (enabled with inconsistencies); both are disabled
\* while isFixing
AutoFixOffered ==
  /\ results # NoResult
  /\ ~isFixing
  /\ \/ ~isLoading /\ Len(results.consolidatedInventory) > 0
     \/ Len(results.inconsistencies) > 0

\* handleAutoFix up to await getAiFixSuggestions(...)
HandleAutoFix ==
  /\ AutoFixOffered
  /\ results # NoResult
  /\ isFixing' = TRUE
  /\ error' = NoError
  /\ fixCall' = [phase |-> "getAiFixSuggestions",
                 sourceData |-> results.sourceData,
                 prompt |-> generatePrompt(results.sourceData,
                                           results.inconsistencies)]
  /\ UNCHANGED <<engineVars, mergeVars, csvVars, files, results, isLoading,
                 manualOverrides, aiReportContent, aiFixedSourceData,
                 reconcileCall>>

\* a catch block that drops the results as well
AutoFixCatchResetting(message) ==
  /\ error' = message
  /\ results' = NoResult
  /\ UNCHANGED <<manualOverrides, aiReportContent, aiFixedSourceData>>

\* catch (err) { setError(err.message || ...) } of handleAutoFix; the Errors
\* of getAiFixSuggestions carry a message
AutoFixCatch(message) ==
  /\ error' = message
  /\ UNCHANGED <<results, manualOverrides, aiReportContent, aiFixedSourceData>>

\* getAiFixSuggestions settles: the rest of the try block, or the catch; then
\* the finally
GetAiFixSuggestionsSettles(response) ==
  /\ fixCall.phase = "getAiFixSuggestions"
  /\ LET outcome == getAiFixSuggestions(fixCall.prompt, response)
         fixedData == outcome.value
         hasReport == "report" \in DOMAIN OwnProps(fixedData)
     IN  IF outcome.ok
         THEN /\ aiReportContent' =
                   IF hasReport THEN fixedData.value.report ELSE aiReportContent
              /\ aiFixedSourceData' =
                   MergedSourceData(fixCall.sourceData, OwnProps(fixedData))
              /\ results' = IF results = NoResult THEN NoResult
                            ELSE SpreadFixedData(results, fixedData)
              /\ manualOverrides' = {}
              /\ UNCHANGED error
         ELSE AutoFixCatch(outcome.message)
  /\ isFixing' = FALSE
  /\ fixCall' = NoCall
  /\ UNCHANGED <<engineVars, mergeVars, csvVars, files, isLoading, reconcileCall>>

\* the inventory table is shown with results, not while loading; a row's
\* cells call handleManualUpdate with the row's item_id
HandleManualUpdate(itemId, field, value) ==
  /\ results # NoResult /\ ~isLoading
  /\ \E i \in 1..Len(results.consolidatedInventory) :
       Prop(results.consolidatedInventory[i], "item_id") = itemId
  /\ manualOverrides' =
       {o \in manualOverrides : o.item_id # itemId}
       \cup {[OverrideOf(manualOverrides, itemId) EXCEPT ![field] = value]}
  /\ UNCHANGED <<engineVars, mergeVars, csvVars, files, results, isLoading, isFixing,
                 error, aiReportContent, aiFixedSourceData, reconcileCall,
                 fixCall>>

\* the item keys a consolidated inventory can show
ItemKeys == {IdA1, IdB2}

NextSession ==
  \/ \E type \in FileTypes : \E file \in FilePool[type] : HandleFileLoad(type, file)
  \/ \E type \in FileTypes : HandleFileClear(type)
  \/ HandleReconcile
  \/ ProcessFilesSettles
  \/ \E answered \in BOOLEAN : InitializeChatSettles(answered)
  \/ HandleAutoFix
  \/ \E response \in AiResponses : GetAiFixSuggestionsSettles(response)
  \/ \E itemId \in ItemKeys : \E field \in DOMAIN OverrideValues :
       \E value \in OverrideValues[field] :
         HandleManualUpdate(itemId, field, value)

SpecSession == InitSession /\ [][NextSession]_vars

----------------------------------------------------------------------------
(* Claims about the correction step *)

\* how the collaborator call ended
TransportFails(response) == response.kind = "rejected"
Unparsable(response) ==
  response.kind = "resolved" /\ response.text.doc \in {"invalid", "null"}

\* C14: when the correction call fails, by a transport error or by a response
\* that cannot be parsed, handleAutoFix leaves results, the manual overrides,
\* the AI report and the corrected source files as they were, records an
\* error message and clears isFixing; starting the call changes none of the
\* four either.
FailedAutoFixLeavesSessionAsItWas ==
  [][ /\ HandleAutoFix =>
           /\ results' = results
           /\ manualOverrides' = manualOverrides
           /\ aiReportContent' = aiReportContent
           /\ aiFixedSourceData' = aiFixedSourceData
      /\ \A response \in AiResponses :
           ( /\ TransportFails(response) \/ Unparsable(response)
             /\ GetAiFixSuggestionsSettles(response) ) =>
             /\ results' = results
             /\ manualOverrides' = manualOverrides
             /\ aiReportContent' = aiReportContent
             /\ aiFixedSourceData' = aiFixedSourceData
             /\ error' # NoError
             /\ ~isFixing' ]_vars

\* a failed correction after an accepted one and a manual override: the
\* results, the override, the report and the corrected files are still there
WitnessFailedAutoFixKeptSession ==
  /\ error = ServiceFailedMessage
  /\ ~isFixing
  /\ results # NoResult
  /\ manualOverrides # {}
  /\ aiReportContent # NoResult
  /\ aiFixedSourceData # NoResult

\* C15: getAiFixSuggestions reports a response that cannot be parsed with a
\* failure the caller can tell apart from the failure of the call itself: no
\* step of the session is the settling of both.
ParseFailureDistinctFromTransportFailure ==
  [][ \A unparsable, failed \in AiResponses :
        ( /\ Unparsable(unparsable)
          /\ TransportFails(failed)
          /\ GetAiFixSuggestionsSettles(unparsable) ) =>
          ~GetAiFixSuggestionsSettles(failed) ]_vars

\* the response contract: an object with exactly the four fields, the report
\* an object of three lists or a bare string
ContractFields ==
  {"consolidatedInventory", "consolidatedOrders", "consolidatedReturns",
   "report"}
WellFormedResponse(response) ==
  /\ response.kind = "resolved"
  /\ response.text.doc = "object"
  /\ DOMAIN response.text.value = ContractFields
  /\ response.text.value.report.t \in {"object", "string"}

\* C16: a response that is not well-formed per the contract is a hard
\* failure of the correction step: an error is recorded and nothing of the
\* response reaches results.
MalformedResponseIsHardFailure ==
  [][ \A response \in AiResponses :
        ( /\ response.kind = "resolved"
          /\ ~WellFormedResponse(response)
          /\ GetAiFixSuggestionsSettles(response) ) =>
          /\ results' = results
          /\ error' # NoError ]_vars

\* rows of a displayed list: _source set, keys distinct
SourceSetAndKeysUnique(rows, key) ==
  /\ \A i \in 1..Len(rows) : "_source" \in DOMAIN rows[i]
  /\ \A i, j \in 1..Len(rows) :
       i # j => Prop(rows[i], key) # Prop(rows[j], key)

\* C17: with non-null results, every row of the displayed consolidated
\* inventory and orders has _source set and no two rows of a list share a key.
DisplayedRowsTaggedAndUnique ==
  results # NoResult =>
    /\ SourceSetAndKeysUnique(resultsWithOverrides.consolidatedInventory,
                              "item_id")
    /\ SourceSetAndKeysUnique(resultsWithOverrides.consolidatedOrders,
                              "order_id")

----------------------------------------------------------------------------
(* Claims about the session *)

\* an override entry is still in effect in a later set of overrides
StaysInEffect(o, overrides) ==
  \E p \in overrides :
    /\ p.item_id = o.item_id
    /\ o.inventory_qty # Undefined => p.inventory_qty # Undefined
    /\ o.reorder_level # Undefined => p.reorder_level # Undefined

\* C18: a manual override stays in effect through every operation of the
\* session other than the start of a reconciliation run.
OverridesKeptUntilReconcile ==
  [][ ~HandleReconcile =>
        \A o \in manualOverrides : StaysInEffect(o, manualOverrides') ]_vars

\* the steps that reset the session's working state
SessionResetStep ==
  \/ HandleReconcile
  \/ \E type \in FileTypes : \E file \in FilePool[type] : HandleFileLoad(type, file)
  \/ \E type \in FileTypes : HandleFileClear(type)
  \/ \E response \in AiResponses :
       /\ ~TransportFails(response) /\ ~Unparsable(response)
       /\ GetAiFixSuggestionsSettles(response)

\* C18, amended: the start of a reconciliation run, a file load, a file clear
\* and an accepted correction clear all overrides; through every other step
\* (settling of a run, start and failure of a correction, overrides of other
\* items) an override stays as it is, and an override of the same item keeps
\* it in effect.
OverridesKeptUntilSessionReset ==
  [][ IF SessionResetStep
      THEN manualOverrides' = {}
      ELSE \A o \in manualOverrides :
             \/ o \in manualOverrides'
             \/ /\ StaysInEffect(o, manualOverrides')
                /\ \E field \in DOMAIN OverrideValues :
                     \E value \in OverrideValues[field] :
                       HandleManualUpdate(o.item_id, field, value) ]_vars

\* overrides of two items in effect after a failed correction
WitnessOverridesOutliveFailedFix ==
  /\ HasOverride(manualOverrides, IdA1)
  /\ HasOverride(manualOverrides, IdB2)
  /\ error = ServiceFailedMessage
  /\ fixCall = NoCall

\* C19: with a mandatory source absent processFiles rejects with a message
\* and without a value, and no run starts; while a run reads its files the
\* results are null, and a run that does not deliver the complete results
\* leaves them null, records an error message and ends loading.
ReconcileFailsWithoutPartialResults ==
  /\ [] /\ ~MandatoryFilesUploaded(files) =>
             \A now \in EvalTimes : \A outcome \in processFiles(files, now) :
               /\ ~outcome.ok
               /\ outcome.message # NoError
               /\ outcome.value = NoResult
        /\ reconcileCall.phase = "processFiles" =>
             /\ results = NoResult
             /\ \A now \in EvalTimes :
                  \E outcome \in processFiles(reconcileCall.files, now) :
                    ~outcome.ok /\ outcome.message # NoError
  /\ [][ /\ HandleReconcile => MandatoryFilesUploaded(files)
         /\ ProcessFilesSettles =>
              \/ \E now \in EvalTimes :
                   \E outcome \in processFiles(reconcileCall.files, now) :
                     outcome.ok /\ results' = outcome.value
              \/ /\ results' = NoResult
                 /\ error' # NoError
                 /\ ~isLoading' ]_vars

\* a run over three loaded files that failed: message, no results
WitnessReconcileFailed ==
  /\ MandatoryFilesUploaded(files)
  /\ error = ProcessFailedMessage
  /\ results = NoResult
  /\ ~isLoading
  /\ reconcileCall = NoCall

\* the states of the five upload slots, and the reconciliation runs over
\* them that succeed
FileStates ==
  { fs \in [FileTypes -> {NoFile} \cup UNION {FilePool[t] : t \in FileTypes}] :
      \A t \in FileTypes : fs[t] = NoFile \/ fs[t] \in FilePool[t] }
SuccessfulReconciles ==
  { outcome \in UNION { processFiles(fs, now) :
                          fs \in {f \in FileStates : MandatoryFilesUploaded(f)},
                          now \in EvalTimes } : outcome.ok }

\* C20: every correction request in flight carries the cleaned rows of a
\* successful reconcile unchanged, together with the inconsistencies the
\* detector found for those rows.
CorrectionRequestCarriesReconcile ==
  fixCall.phase = "getAiFixSuggestions" =>
    \E outcome \in SuccessfulReconciles :
      /\ fixCall.prompt.legacy = outcome.value.sourceData.legacy
      /\ fixCall.prompt.spreadsheet = outcome.value.sourceData.spreadsheet
      /\ fixCall.prompt.supplier = outcome.value.sourceData.supplier
      /\ fixCall.prompt.reverseLogistics =
           outcome.value.sourceData.reverseLogistics
      /\ fixCall.prompt.historicalBackup =
           outcome.value.sourceData.historicalBackup
      /\ fixCall.prompt.inconsistencies = outcome.value.inconsistencies

----------------------------------------------------------------------------
(* CSV conversions: a row list is rendered for download, or the text of an *)
(* uploaded file is read; the text is parsed                                *)

\* rows per rendered list, data lines per uploaded text
MaxCsvRows == 2
MaxCsvLines == 2

\* Object.keys of the first row of a rendered list
CsvHeaderOrders ==
  { <<"item_id">>, <<"item_id", "item_name", "inventory_qty">>,
    <<"item_name", "item_id">> }

\* the values a cell of a rendered list holds
CsvCellValues(f) ==
  CASE f = "item_id"   -> {IdA1, Null}
    [] f = "item_name" -> {Str(<<"W">>), Str(<<"a", ",", "b">>), Null}
    [] OTHER           -> {Num(5), Null}

RowsWithKeys(headers) ==
  { [f \in Fields |-> IF f \in RangeOf(headers) THEN g[f] ELSE Undefined] :
      g \in { h \in [RangeOf(headers) ->
                       UNION {CsvCellValues(f) : f \in RangeOf(headers)}] :
                \A f \in RangeOf(headers) : h[f] \in CsvCellValues(f) } }

RowInputs ==
  UNION { { [kind |-> "rows", headers |-> headers, rows |-> rows,
             lines |-> <<>>, newline |-> FALSE] :
              rows \in SeqUpTo(RowsWithKeys(headers), MaxCsvRows) } :
          headers \in CsvHeaderOrders }

\* the lines of an uploaded text, each line by its cells
HeaderLines ==
  { <<FieldSpelling["item_id"], FieldSpelling["inventory_qty"]>>,
    <<<<" ">> \o FieldSpelling["item_id"] \o <<" ">>,
      FieldSpelling["inventory_qty"]>> }
DataLines ==
  { <<IdA1.s, <<"5">>>>, <<IdA1.s>>, <<IdA1.s, <<"5">>, <<"x">>>>,
    <<<<" ">>, <<"5">>>>, <<<<>>>> }

\* no text, a header only, or a header and data lines the last of which is
\* not blank; with or without a line feed at the end
SheetInputs ==
  { [kind |-> "sheet", headers |-> <<>>, rows |-> <<>>,
     lines |-> lines, newline |-> newline] :
      lines \in {<<>>} \cup
                { <<header>> \o data :
                    header \in HeaderLines,
                    data \in { d \in SeqUpTo(DataLines, MaxCsvLines) :
                                 Len(d) = 0 \/ d[Len(d)] # <<<<>>>> } },
      newline \in BOOLEAN }

InitCsv ==
  /\ pc = "csv"
  /\ csvInput \in RowInputs \cup SheetInputs
  /\ csvText = <<>> /\ csvRows = NoList
  /\ PipelineIdle /\ MergeIdle /\ SessionIdle

\* downloadCsv(data, fileName): the content handed to downloadFile
DownloadCsv ==
  /\ pc = "csv" /\ csvInput.kind = "rows"
  /\ csvText' = generateCsvContent(csvInput.rows, csvInput.headers)
  /\ pc' = "text"
  /\ UNCHANGED <<rawData, cleanedOnce, cleanedTwice, legacy, spreadsheet,
                 supplier, reverseLogistics, evalTime, inconsistencies,
                 inconsistenciesSwapped, disruptionAnalysis, consolidated,
                 mergeVars, sessionVars, csvInput, csvRows>>

\* readFileAsText(file) resolves with the text of the file
ReadFileAsText ==
  /\ pc = "csv" /\ csvInput.kind = "sheet"
  /\ csvText' = CsvText(csvInput.lines)
                  \o (IF csvInput.newline THEN <<"\n">> ELSE <<>>)
  /\ pc' = "text"
  /\ UNCHANGED <<rawData, cleanedOnce, cleanedTwice, legacy, spreadsheet,
                 supplier, reverseLogistics, evalTime, inconsistencies,
                 inconsistenciesSwapped, disruptionAnalysis, consolidated,
                 mergeVars, sessionVars, csvInput, csvRows>>

\* parseCSV(text)
ParseCSV ==
  /\ pc = "text"
  /\ csvRows' = parseCSV(csvText)
  /\ pc' = "parsed"
  /\ UNCHANGED <<rawData, cleanedOnce, cleanedTwice, legacy, spreadsheet,
                 supplier, reverseLogistics, evalTime, inconsistencies,
                 inconsistenciesSwapped, disruptionAnalysis, consolidated,
                 mergeVars, sessionVars, csvInput, csvText>>

NextCsv == DownloadCsv \/ ReadFileAsText \/ ParseCSV

SpecCsv == InitCsv /\ [][NextCsv]_vars

----------------------------------------------------------------------------
(* Claims about the CSV conversions *)

ContainsDelimiter(v) == v.t = "string" /\ Includes(v.s, <<",">>)

\* a rendered value read back: null as null, any other value as its text
SameCsvValue(original, parsed) ==
  IF original = Null THEN parsed = Null
  ELSE parsed = Str(StringOf(original))

\* C22: rendering a row list with generateCsvContent and parsing the text
\* with parseCSV yields as many rows, and for every field whose value did
\* not contain the delimiter the value of the original row.
CsvRoundTripRecoversFields ==
  (pc = "parsed" /\ csvInput.kind = "rows") =>
    /\ Len(csvRows) = Len(csvInput.rows)
    /\ \A i \in 1..Len(csvInput.rows) : \A f \in RangeOf(csvInput.headers) :
         ~ContainsDelimiter(csvInput.rows[i][f]) =>
           SameCsvValue(csvInput.rows[i][f], csvRows[i][f])

\* the fields a header line names
HeaderFields(header) ==
  {f \in Fields : \E k \in 1..Len(header) : Trim(header[k]) = FieldSpelling[f]}

----------------------------------------------------------------------------
(* Claims about the session: the correction's result and concurrent runs *)

BareReportResponse(response) ==
  /\ response.kind = "resolved"
  /\ response.text.doc = "object"
  /\ "report" \in DOMAIN response.text.value
  /\ response.text.value.report.t = "string"

\* C24: for a response whose report is a bare string s, getAiFixSuggestions
\* returns report = {fixesApplied: [s], rootCauseAnalysis: [],
\* recommendations: []} and the other fields as received; handleAutoFix
\* stores that report and those fields.
BareReportCoerced ==
  [][ \A response \in AiResponses :
        (BareReportResponse(response) /\ GetAiFixSuggestionsSettles(response)) =>
          LET received == response.text.value
              returned == getAiFixSuggestions(fixCall.prompt, response)
              coerced == [t |-> "object", text |-> "",
                          fixesApplied |-> <<received.report.text>>,
                          rootCauseAnalysis |-> <<>>, recommendations |-> <<>>]
          IN  /\ returned.ok
              /\ DOMAIN returned.value.value = DOMAIN received
              /\ returned.value.value.report = coerced
              /\ \A k \in DOMAIN received \ {"report"} :
                   returned.value.value[k] = received[k]
              /\ aiReportContent' = coerced
              /\ results # NoResult =>
                   /\ results'.report = coerced
                   /\ \A k \in DOMAIN received \ {"report"} :
                        results'[k] = received[k] ]_vars

\* results and report after a response with the bare report "done"
WitnessBareReportStored ==
  /\ results # NoResult
  /\ results.report.t = "object"
  /\ results.report.fixesApplied = <<"done">>
  /\ aiReportContent = results.report
  /\ fixCall = NoCall

\* C25: once a file is loaded or cleared, which leaves the results null
\* until the next reconcile delivers, the AI report and the corrected source
\* files stay empty: a correction call that settles while the results are
\* null, having been in flight when the file changed, repopulates neither.
StaleCorrectionNeverRepopulates ==
  [][ \A response \in AiResponses :
        ( /\ results = NoResult
          /\ GetAiFixSuggestionsSettles(response) ) =>
          /\ aiReportContent' = NoResult
          /\ aiFixedSourceData' = NoResult ]_vars

\* the source rows a reconcile over a state of the upload slots delivers
SourcesOfFiles ==
  [fs \in FileStates |->
    IF MandatoryFilesUploaded(fs)
    THEN { outcome.value.sourceData :
             outcome \in { o \in UNION {processFiles(fs, now) : now \in EvalTimes} :
                             o.ok } }
    ELSE {}]

\* C26: whenever the results are non-null they were computed from the files
\* that are selected now.
ResultsFromSelectedFiles ==
  results # NoResult => results.sourceData \in SourcesOfFiles[files]

\* C27: a reconcile run and a correction run are never in flight at the same
\* time.
RunsNeverOverlap ==
  ~(reconcileCall.phase # "idle" /\ fixCall.phase # "idle")

\* C28: an accepted correction changes, in non-null results, only the three
\* consolidated lists, the report and the inconsistencies, which become
\* empty; sourceData, disruptionAnalysis and cleaningSteps stay, whatever
\* fields the response holds.
CorrectionChangesConsolidatedOnly ==
  [][ \A response \in AiResponses :
        ( /\ response.kind = "resolved" /\ response.text.doc = "object"
          /\ results # NoResult
          /\ GetAiFixSuggestionsSettles(response) ) =>
          /\ DOMAIN results' = DOMAIN results
          /\ results'.inconsistencies = <<>>
          /\ results'.sourceData = results.sourceData
          /\ results'.disruptionAnalysis = results.disruptionAnalysis
          /\ results'.cleaningSteps = results.cleaningSteps ]_vars

----------------------------------------------------------------------------
(* Claims about rows without a key and rows sharing a key *)

\* a key field that is null or absent
KeyMissing(v) == v.t \in {"null", "undefined"}

\* C29: the merger never rewrites a legacy or spreadsheet row whose key field
\* is null or absent: such a row keeps its inventory fields when its item_id
\* is missing and its order fields when its order_id is missing, whatever
\* rows the corrected lists contain.
KeylessRowsNeverRewritten ==
  [][pc = "cleaned" /\ pc' = "merged" =>
       \A name \in {"legacy", "spreadsheet"} :
         LET old == Deref(heap, originalSources[name])
             new == Deref(heap', updatedSources'[name])
         IN  \A i \in 1..Len(old) :
               /\ (KeyMissing(old[i]["item_id"]) /\ KeyMissing(old[i]["order_id"]))
                    => new[i] = old[i]
               /\ \A f \in Fields \ orderMapping :
                    KeyMissing(old[i]["item_id"]) => new[i][f] = old[i][f]
               /\ \A f \in Fields \ invMapping :
                    KeyMissing(old[i]["order_id"]) => new[i][f] = old[i][f]]_vars

\* some legacy row and some spreadsheet row carry the same key in keyCol,
\* both with a non-null quantity in valCol, and the quantities differ
DifferingPairs(keyCol, valCol) ==
  { legacy[i][keyCol] :
      i \in { i \in 1..Len(legacy) :
                /\ Truthy(legacy[i][keyCol])
                /\ HasQuantity(legacy[i][valCol])
                /\ \E j \in 1..Len(spreadsheet) :
                     /\ spreadsheet[j][keyCol] = legacy[i][keyCol]
                     /\ HasQuantity(spreadsheet[j][valCol])
                     /\ spreadsheet[j][valCol] # legacy[i][valCol] } }

\* C30: the detector reports an item_id (order_id) whenever some legacy row
\* and some spreadsheet row carrying it both have a non-null quantity and the
\* two quantities differ, also when a source holds several rows of that key.
EveryDifferingPairReported ==
  pc \in {"detected", "swapped"} =>
    /\ \A k \in DifferingPairs("item_id", "inventory_qty") :
         k \in MismatchedKeys(inconsistencies, InventoryDiscrepancy)
    /\ \A k \in DifferingPairs("order_id", "order_qty") :
         k \in MismatchedKeys(inconsistencies, OrderDiscrepancy)

====
